---- MODULE Spec2Model ----
(***************************************************************************)
(* State-machine model of the SwiftGrid worker core (apps/worker/src):     *)
(* the job lifecycle processor (main.rs), the event log (events.rs), the   *)
(* cancellation registry (cancellation.rs), the retry rules (retry.rs),    *)
(* the map engine (nodes/map.rs) and the scheduler sidecar (scheduler.rs). *)
(*                                                                         *)
(* Every await of the source is a step boundary: between two steps of one  *)
(* task any other task, the scheduler or the environment may take a step.  *)
(***************************************************************************)
EXTENDS Integers, Sequences, FiniteSets, TLC

\* ------------------------------------------------------------------------
\* Bounds of the model
\* ------------------------------------------------------------------------
\* concurrently running process_job tasks (tokio::spawn in main)
NTasks == 2
\* largest max_retries carried by the modelled job
MaxRetriesBound == 2
\* largest number of retryable failures the remote endpoint returns
MaxFails == 2
\* duplicate enqueues of a job message
MaxDup == 1
\* worker crashes
MaxCrash == 1
\* database statements that fail (pool timeout)
MaxDbFaults == 1

\* items of the mapped array
MaxItems == 3
\* largest concurrency a map node asks for
MaxConcurrency == 2
\* concurrently running process_job tasks that handle map lifecycle jobs
NHandlers == 2
\* items + concurrency of the map node
MaxLoad == 4
\* child runs ever spawned for one item
MaxSpawnsPerItem == 2
\* spawn_children_cached calls that fail
MaxSpawnFaults == 1
\* recoveries check_stale_batches starts
MaxStale == 1
\* items of the batch followed under fair scheduling
MaxLiveItems == 2
\* Redis commands that fail
MaxRedisFaults == 1
\* nodes/delay.rs SHORT_DELAY_THRESHOLD_MS: longer delays go to the delayed set
SHORT_DELAY_THRESHOLD_MS == 60000

\* scheduler loops (one per worker process)
NSchedulers == 2
\* suspensions rows
NSuspensions == 2
\* workflow_runs rows the cron schedule can create
MaxCronRuns == 3

\* jobs on the stream at the start of the dispatch loop
MaxBacklog == 4
\* tasks the dispatch loop has running at a time
MaxInFlight == 3

\* the largest depth and depth limit of a SUBFLOW or MAP node
MaxDepth == 2

\* the largest attempt number handed to calculate_backoff
MaxAttempt == 70

\* the largest status code handed to is_retryable_error
MaxStatus == 600

\* scheduler, delayed jobs: the largest wake-time, the last instant of the clock,
\* the number of jobs put into the delayed set
MaxWake == 2
MaxTime == 9
MaxDue == 21

NULL == -1

\* scheduler.rs: poll_interval = Duration::from_secs(1), in half seconds
poll_interval == 2
\* scheduler.rs: zrangebyscore_limit(.., 0, 10)
PromoteLimit == 10
\* retry.rs: random_range(0..=500)
MaxJitter == 500

\* the status codes that occur: remote answers, the cancellation status
StatusCodes == {200, 202, 404, 499, 500, 503}

\* the durations of the DELAY nodes followed: at and around the threshold
Durations == {1000, SHORT_DELAY_THRESHOLD_MS, SHORT_DELAY_THRESHOLD_MS + 1, 120000}

\* one more copy of x in the bag b
Put(b, x) == [b EXCEPT ![x] = @ + 1]

Tasks == 1..NTasks
Attempts == 0..MaxRetriesBound
Handlers == 1..NHandlers

VARIABLES
    \* --- durable queue (Redis) ---
    stream,         \* swiftgrid_stream: attempt -> undelivered copies of the job
    pending,        \* delivered and never ACKed (consumer group pending list)
    retry_timers,   \* detached tasks of handle_retry sleeping the backoff
    receipts,       \* swiftgrid_results: status code -> receipts published
    \* --- relational store (Postgres) ---
    run_events,     \* run_events rows of the run, in insertion order
    run_status,     \* workflow_runs.status of the run
    \* --- worker process ---
    task,           \* process_job invocations
    tokens,         \* CancellationRegistry.tokens for the run: 0 = no entry
    nextTok,        \* number of CancellationToken objects created so far
    cancelledToks,  \* the token objects that were triggered
    notified,       \* POSTs to /api/orchestrate: success flag -> count
    \* --- environment ---
    max_retries,    \* WorkerJob.max_retries of the job
    failsLeft,      \* retryable failures the remote endpoint still returns
    failsInit,      \* the k of "fails k times then succeeds"
    finalStatus,    \* the status the remote returns once it stops failing
    node,           \* the node of the job: its type and, for SUBFLOW and MAP, its depths
    published,      \* a message was published on cancel:<run>
    dbFaults,       \* database failures still to come
    crashes,        \* worker crashes still to come
    dups,           \* duplicate enqueues still to come
    suspend_rows,   \* attempt -> times a suspending executor inserted its rows
    \* --- map engine ---
    map_data,       \* MapNodeData of the map job: items, concurrency, fail_fast
    batch,          \* the batch_operations row
    batch_results,  \* batch_results: item_index -> status of its row
    children,       \* child runs still running, per item_index
    spawned,        \* child runs ever created, per item_index
    mapq,           \* map lifecycle jobs on the stream
    hand,           \* process_job invocations running a map lifecycle job
    init_pc,        \* position of handle_map_init
    parent_status,  \* workflow_runs.status of the run that owns the batch
    map_out,        \* the results complete_batch returned
    batch_events,   \* run_events of the map node: type -> count
    sched,          \* position of the scheduler's batch checks
    spawnFaults,    \* spawn failures still to come
    staleLeft,      \* stale recoveries still to come
    map_unacked,    \* lifecycle jobs of the batch that process_job left un-ACKed
    map_notified,   \* notify_orchestrator calls for the map node, per success
    \* --- scheduler: suspensions ---
    suspensions,    \* suspensions rows
    timeout_events, \* NODE_FAILED rows of check_expired_suspensions, per suspension
    resume_jobs,    \* SUBFLOWRESUME jobs on the stream, per suspension
    child_run,      \* workflow_runs.status of the child run of a sub-flow suspension
    waiting_run,    \* workflow_runs.status of the run that owns the suspension
    expiry,         \* position of check_expired_suspensions, per scheduler
    subflow,        \* position of check_subflow_timeouts, per scheduler
    \* --- scheduler: cron ---
    workflow,       \* the workflows row with a schedule
    cron_runs,      \* workflow_runs rows with trigger = 'cron': id -> status
    cron_jobs,      \* jobs enqueued for the starting nodes, per run
    cron,           \* position of check_scheduled_workflows, per scheduler
    \* --- main: dispatch loop and shutdown ---
    worker,         \* the main loop: consuming, draining (after ctrl_c), exited
    backlog,        \* jobs on the stream that were not read
    in_flight,      \* the AtomicUsize in_flight
    running_jobs,   \* the spawned tasks: in process_job, before fetch_sub, none
    completed,      \* invocations of process_job that returned
    \* --- scheduler: delayed jobs ---
    now,            \* SystemTime::now(), counted in half seconds
    delayed,        \* the sorted set swiftgrid_delayed: score -> number of members
    pushed,         \* per score, the times at which a member was pushed to the stream
    xadded,         \* per score, the members put on the active stream by the scheduler
    next_tick,      \* the time at which the sleep of the scheduler loop ends
    redisFaults,    \* Redis commands of the scheduler that may still fail
    \* --- sub-flow resume ---
    subflow_ctx,    \* suspensions.execution_context of a SUBFLOW node: fail_on_error
    resume,         \* the SUBFLOWRESUME job of each suspension and its processing
    \* --- retry.rs: calculate_backoff ---
    attempt,        \* the argument of calculate_backoff
    backoff,        \* its result: none yet, a Duration in ms, or a panic
    \* --- retry.rs: is_retryable_error ---
    status_code,    \* the argument of is_retryable_error
    retryable       \* its results so far (none before the call)

jobVars == <<stream, pending, retry_timers, receipts, run_events, run_status,
             task, tokens, nextTok, cancelledToks, notified, max_retries,
             failsLeft, failsInit, finalStatus, node, published, dbFaults, crashes, dups, suspend_rows>>

mapVars == <<map_data, batch, batch_results, children, spawned, mapq, hand, init_pc,
             parent_status, map_out, batch_events, sched, spawnFaults, staleLeft, map_unacked, map_notified>>

suspVars == <<suspensions, timeout_events, resume_jobs, child_run, waiting_run,
              expiry, subflow>>

cronVars == <<workflow, cron_runs, cron_jobs, cron>>

schedVars == <<suspVars, cronVars>>

mainVars == <<worker, backlog, in_flight, running_jobs, completed>>

delayVars == <<now, delayed, pushed, xadded, next_tick, redisFaults>>

resumeVars == <<subflow_ctx, resume>>

backoffVars == <<attempt, backoff, status_code, retryable>>

vars == <<jobVars, mapVars, schedVars, mainVars, delayVars, resumeVars, backoffVars>>

\* ------------------------------------------------------------------------
\* retry.rs
\* ------------------------------------------------------------------------
\* is_retryable_error with 429 left out of the pattern
is_retryable_error_No429(code) == code \in {408, 500, 502, 503, 504}

is_retryable_error(code) == code \in {408, 429, 500, 502, 503, 504}

\* ------------------------------------------------------------------------
\* events.rs
\* ------------------------------------------------------------------------
TerminalTypes == {"NODE_COMPLETED", "NODE_FAILED", "NODE_CANCELLED"}

Event(type, rc) == [type |-> type, rc |-> rc]

\* log_event_with_retry: INSERT INTO run_events; ok = FALSE is a failed INSERT,
\* which every caller in main.rs discards (let _ = ...).
log_event_with_retry(log, type, rc, ok) ==
    IF ok THEN Append(log, Event(type, rc)) ELSE log

\* log_event: the same with retry_count = NULL
log_event(log, type, ok) == log_event_with_retry(log, type, NULL, ok)

\* has_node_completed: a terminal row with this retry_count exists
has_node_completed(log, retry_count) ==
    \E i \in 1..Len(log) :
        log[i].rc = retry_count /\ log[i].type \in TerminalTypes

\* the outcomes a database statement can have while failures remain
DbOutcomes == IF dbFaults > 0 THEN {TRUE, FALSE} ELSE {TRUE}

DbAfter(ok) == IF ok THEN dbFaults ELSE dbFaults - 1

\* the outcomes a Redis command can have while failures remain
RedisOutcomes == IF redisFaults > 0 THEN {TRUE, FALSE} ELSE {TRUE}

\* ------------------------------------------------------------------------
\* cancellation.rs
\* ------------------------------------------------------------------------
is_cancelled(tok) == tok \in cancelledToks

\* CancellationRegistry::cancel: triggers the token only if the run has one
RegistryCancel == IF tokens # 0 THEN cancelledToks \cup {tokens} ELSE cancelledToks

\* ------------------------------------------------------------------------
\* main.rs: process_job
\* ------------------------------------------------------------------------
\* an HTTP node has no depth
HttpNode == [type |-> "HTTP", depth |-> 0, depth_limit |-> 0, duration_ms |-> 0]

IdleTask ==
    [pc |-> "idle", rc |-> 0, tok |-> 0, st |-> 0, err |-> "", wc |-> FALSE,
     executed |-> FALSE, afterPub |-> FALSE, atPub |-> "none"]

\* read_next_job + tokio::spawn(process_job); the spawned tasks are anonymous,
\* so the lowest free slot takes the message
Deliver(t) ==
    /\ task[t].pc = "idle"
    /\ \A u \in Tasks : u < t => task[u].pc # "idle"
    /\ \E a \in Attempts :
        /\ stream[a] > 0
        /\ stream' = [stream EXCEPT ![a] = @ - 1]
        /\ task' = [task EXCEPT ![t] =
                      [IdleTask EXCEPT !.pc = "token", !.rc = a, !.afterPub = published]]
    /\ UNCHANGED <<pending, retry_timers, receipts, run_events, run_status, tokens,
                   nextTok, cancelledToks, notified, max_retries, failsLeft,
                   failsInit, finalStatus, node, published, dbFaults, crashes, dups, suspend_rows>>
    /\ UNCHANGED <<mapVars, schedVars, mainVars, delayVars, resumeVars, backoffVars>>

\* process_job returns: the tokio task ends (after ack_message, or without it,
\* in which case the caller puts the message on the pending list)
Return(t) == IdleTask

\* get_or_create, then the fast-path check of the token
GetToken(t) ==
    /\ task[t].pc = "token"
    /\ LET fresh == tokens = 0
           tok == IF fresh THEN nextTok + 1 ELSE tokens
       IN /\ tokens' = tok
          /\ nextTok' = IF fresh THEN nextTok + 1 ELSE nextTok
          /\ task' = [task EXCEPT ![t] =
                        IF is_cancelled(tok)
                        THEN Return(t)
                        ELSE [@ EXCEPT !.pc = "status", !.tok = tok]]
    /\ UNCHANGED <<stream, pending, retry_timers, receipts, run_events, run_status,
                   cancelledToks, notified, max_retries, failsLeft, failsInit,
                   finalStatus, node, published, dbFaults, crashes, dups, suspend_rows>>
    /\ UNCHANGED <<mapVars, schedVars, mainVars, delayVars, resumeVars, backoffVars>>

\* a query of process_job that ends the invocation and ACKs the message
QueryFailed_Acked(t) ==
    /\ task' = [task EXCEPT ![t] = Return(t)]
    /\ UNCHANGED pending

\* the Err arm of the run-status query and of the idempotency query: return
\* without ack_message, the message stays on the pending list
QueryFailed(t) ==
    /\ task' = [task EXCEPT ![t] = Return(t)]
    /\ pending' = [pending EXCEPT ![task[t].rc] = @ + 1]

\* a status check that skips the jobs of cancelled runs only
RunInactive_CancelledOnly(status) == status = "cancelled"

\* the statuses of a run whose jobs process_job skips
RunInactive(status) == status \in {"cancelled", "failed"}

\* SELECT status FROM workflow_runs
StatusCheck(t) ==
    /\ task[t].pc = "status"
    /\ \E ok \in DbOutcomes :
        /\ dbFaults' = DbAfter(ok)
        /\ IF ~ok
           THEN QueryFailed(t)
           ELSE /\ task' = [task EXCEPT ![t] =
                              IF RunInactive(run_status)
                              THEN Return(t)
                              ELSE [@ EXCEPT !.pc = "idem"]]
                /\ UNCHANGED pending
    /\ UNCHANGED <<stream, retry_timers, receipts, run_events, run_status, tokens,
                   nextTok, cancelledToks, notified, max_retries, failsLeft,
                   failsInit, finalStatus, node, published, crashes, dups, suspend_rows>>
    /\ UNCHANGED <<mapVars, schedVars, mainVars, delayVars, resumeVars, backoffVars>>

\* has_node_completed for (run, node, retry_count)
IdemCheck(t) ==
    /\ task[t].pc = "idem"
    /\ \E ok \in DbOutcomes :
        /\ dbFaults' = DbAfter(ok)
        /\ IF ~ok
           THEN QueryFailed(t)
           ELSE /\ task' = [task EXCEPT ![t] =
                              IF has_node_completed(run_events, task[t].rc)
                              THEN Return(t)
                              ELSE [@ EXCEPT !.pc = "started"]]
                /\ UNCHANGED pending
    /\ UNCHANGED <<stream, retry_timers, receipts, run_events, run_status, tokens,
                   nextTok, cancelledToks, notified, max_retries, failsLeft,
                   failsInit, finalStatus, node, published, crashes, dups, suspend_rows>>
    /\ UNCHANGED <<mapVars, schedVars, mainVars, delayVars, resumeVars, backoffVars>>

\* log NODE_STARTED, then enter execute_node
LogStarted(t) ==
    /\ task[t].pc = "started"
    /\ \E ok \in DbOutcomes :
        /\ dbFaults' = DbAfter(ok)
        /\ run_events' = log_event(run_events, "NODE_STARTED", ok)
        /\ task' = [task EXCEPT ![t] =
                      [@ EXCEPT !.pc = "send"]]
    /\ UNCHANGED <<stream, pending, retry_timers, receipts, run_status, tokens,
                   nextTok, cancelledToks, notified, max_retries, failsLeft,
                   failsInit, finalStatus, node, published, crashes, dups, suspend_rows>>
    /\ UNCHANGED <<mapVars, schedVars, mainVars, delayVars, resumeVars, backoffVars>>

\* the status the remote endpoint answers with
RemoteStatus == IF failsLeft > 0 THEN 503 ELSE finalStatus

\* execute_node has returned (status, body, was_cancelled); err is the "error"
\* text of the body
Returned(t, status, error, was_cancelled) ==
    [task[t] EXCEPT !.pc = "act", !.st = status, !.err = error,
                    !.wc = was_cancelled]

\* the error text of an HTTP result: the 500 answers of the remote here carry
\* a body whose "error" names a database error
HttpError(status) == IF status = 500 THEN "Database error: pool timed out" ELSE ""

\* spawn_child_run: new_depth > depth_limit; handle_map_init: current_depth >=
\* depth_limit
DepthLimitExceeded(n) ==
    CASE n.type = "SUBFLOW" -> n.depth + 1 > n.depth_limit
      [] n.type = "MAP" -> n.depth >= n.depth_limit
      [] OTHER -> FALSE

\* execute_node for a WEBHOOKWAIT, SUBFLOW or MAP node: the Err of the depth
\* check becomes status 500 with the error's text; otherwise the node suspends
\* with 202 (the spawning itself is modelled with the map engine and the
\* suspensions)
ExecSpawning(t) ==
    IF DepthLimitExceeded(node)
    THEN Returned(t, 500, "depth limit exceeded", FALSE)
    ELSE Returned(t, 202, "", FALSE)

\* nodes/delay.rs execute: delay_ms <= SHORT_DELAY_THRESHOLD_MS sleeps inline
LongDelay(n) == n.type = "DELAY" /\ n.duration_ms > SHORT_DELAY_THRESHOLD_MS

\* nodes/delay.rs execute, long delay: zadd(resume_job, resume_at) into the
\* delayed set, the result discarded
ZaddResume(resume_at) ==
    IF LongDelay(node) THEN [delayed EXCEPT ![resume_at] = @ + 1] ELSE delayed

\* execute_node for a DELAY node: the long delay answers 202 with a body of
\* "scheduled", "resume_at" and "delayed_ms"; the inline delay starts its sleep
ExecDelay(t) ==
    IF LongDelay(node)
    THEN Returned(t, 202, "", FALSE)
    ELSE [task[t] EXCEPT !.pc = "await", !.executed = TRUE]

\* the rows a suspending executor writes before it answers 202, each under a
\* fresh uuid and with no conflict clause: execute_wait its suspensions row,
\* spawn_child_run the child run and the suspensions row, handle_map_init the
\* batch_operations row and the first cohort of child runs
SuspendRows(retry_count) ==
    IF node.type \in {"WEBHOOKWAIT", "SUBFLOW", "MAP"} /\ ~DepthLimitExceeded(node)
    THEN [suspend_rows EXCEPT ![retry_count] = @ + 1]
    ELSE suspend_rows

\* nodes/http.rs execute: the biased select is polled for the first time;
\* the cancel arm is checked before the request is sent
ExecSend(t) ==
    /\ task[t].pc = "send"
    /\ task' = [task EXCEPT ![t] =
                  IF node.type = "DELAY" THEN ExecDelay(t)
                  ELSE IF node.type # "HTTP" THEN ExecSpawning(t)
                  ELSE IF is_cancelled(task[t].tok)
                  THEN Returned(t, 499, "Request cancelled", TRUE)
                  ELSE [@ EXCEPT !.pc = "await", !.executed = TRUE]]
    /\ suspend_rows' = SuspendRows(task[t].rc)
    /\ \E resume_at \in DOMAIN delayed :
        /\ LongDelay(node) => resume_at > now
        /\ delayed' = ZaddResume(resume_at)
    /\ UNCHANGED <<stream, pending, retry_timers, receipts, run_events, run_status,
                   tokens, nextTok, cancelledToks, notified, max_retries, failsLeft,
                   failsInit, finalStatus, node, published, dbFaults, crashes, dups>>
    /\ UNCHANGED <<now, pushed, xadded, next_tick, redisFaults>>
    /\ UNCHANGED <<mapVars, schedVars, mainVars, resumeVars, backoffVars>>

\* nodes/http.rs execute: the request is in flight; the cancel arm wins over
\* the response. nodes/delay.rs execute, inline delay: tokio::time::sleep of
\* the whole duration, then 200; the token is not among its arguments
ExecAwait(t) ==
    /\ task[t].pc = "await"
    /\ IF node.type = "DELAY"
       THEN /\ task' = [task EXCEPT ![t] = Returned(t, 200, "", FALSE)]
            /\ UNCHANGED failsLeft
       ELSE IF is_cancelled(task[t].tok)
       THEN /\ task' = [task EXCEPT ![t] = Returned(t, 499, "Request cancelled", TRUE)]
            /\ UNCHANGED failsLeft
       ELSE /\ task' = [task EXCEPT ![t] = [@ EXCEPT !.pc = "resp", !.st = RemoteStatus]]
            /\ failsLeft' = IF failsLeft > 0 THEN failsLeft - 1 ELSE 0
    /\ UNCHANGED <<stream, pending, retry_timers, receipts, run_events, run_status,
                   tokens, nextTok, cancelledToks, notified, max_retries,
                   failsInit, finalStatus, node, published, dbFaults, crashes, dups, suspend_rows>>
    /\ UNCHANGED <<mapVars, schedVars, mainVars, delayVars, resumeVars, backoffVars>>

\* nodes/http.rs execute: headers arrived; the token is checked once more
\* before the body is read
ExecResp(t) ==
    /\ task[t].pc = "resp"
    /\ task' = [task EXCEPT ![t] =
                  IF is_cancelled(task[t].tok)
                  THEN Returned(t, 499, "Request cancelled", TRUE)
                  ELSE [@ EXCEPT !.pc = "body"]]
    /\ UNCHANGED <<stream, pending, retry_timers, receipts, run_events, run_status,
                   tokens, nextTok, cancelledToks, notified, max_retries, failsLeft,
                   failsInit, finalStatus, node, published, dbFaults, crashes, dups, suspend_rows>>
    /\ UNCHANGED <<mapVars, schedVars, mainVars, delayVars, resumeVars, backoffVars>>

\* nodes/http.rs execute: resp.text().await is not raced against the token
ExecBody(t) ==
    /\ task[t].pc = "body"
    /\ task' = [task EXCEPT ![t] = Returned(t, task[t].st, HttpError(task[t].st), FALSE)]
    /\ UNCHANGED <<stream, pending, retry_timers, receipts, run_events, run_status,
                   tokens, nextTok, cancelledToks, notified, max_retries, failsLeft,
                   failsInit, finalStatus, node, published, dbFaults, crashes, dups, suspend_rows>>
    /\ UNCHANGED <<mapVars, schedVars, mainVars, delayVars, resumeVars, backoffVars>>

\* the was_cancelled branch of process_job: log NODE_CANCELLED
handle_cancelled(t, ok) ==
    /\ run_events' = log_event_with_retry(run_events, "NODE_CANCELLED", task[t].rc, ok)
    /\ task' = [task EXCEPT ![t] = [@ EXCEPT !.pc = "fin_cancel"]]
    /\ UNCHANGED retry_timers

\* a re-enqueued copy that keeps the retry_count of the failed execution
NextAttempt_Same(retry_count) == retry_count

\* the retry_count the re-enqueued copy carries
NextAttempt(retry_count) == retry_count + 1

\* handle_retry: log NODE_RETRY_SCHEDULED, spawn the delayed re-enqueue
handle_retry(t, ok) ==
    /\ run_events' = log_event(run_events, "NODE_RETRY_SCHEDULED", ok)
    /\ retry_timers' = [retry_timers EXCEPT ![NextAttempt(task[t].rc)] = @ + 1]
    /\ task' = [task EXCEPT ![t] = [@ EXCEPT !.pc = "fin_retry"]]

\* handle_final_result: log NODE_COMPLETED or NODE_FAILED with the retry_count
handle_final_result(t, is_success, ok) ==
    /\ run_events' = log_event_with_retry(
                        run_events,
                        IF is_success THEN "NODE_COMPLETED" ELSE "NODE_FAILED",
                        task[t].rc, ok)
    /\ task' = [task EXCEPT ![t] = [@ EXCEPT !.pc = "fin_final"]]
    /\ UNCHANGED retry_timers

\* is_suspended of process_job for an execution node: status 202 with a body
\* that has "suspended" or "batch_id"; the 202 results here carry such a body,
\* but for the body of the long delay
is_suspended(status, n) == status = 202 /\ n.type # "DELAY"

\* is_transient_db_error of process_job: status 500 with an error text that
\* contains "pool timed out" or "Database error"
is_transient_db_error(status, error) ==
    /\ status = 500
    /\ error \in {"Database error: pool timed out", "Database error", "pool timed out"}

\* a suspended node that is ACKed with no NODE_SUSPENDED event
handle_suspended_Unlogged(t, ok) ==
    /\ run_events' = run_events
    /\ ok
    /\ task' = [task EXCEPT ![t] = [@ EXCEPT !.pc = "fin_susp"]]
    /\ UNCHANGED retry_timers

\* the is_suspended branch of process_job: log NODE_SUSPENDED
handle_suspended(t, ok) ==
    /\ run_events' = log_event_with_retry(run_events, "NODE_SUSPENDED", task[t].rc, ok)
    /\ task' = [task EXCEPT ![t] = [@ EXCEPT !.pc = "fin_susp"]]
    /\ UNCHANGED retry_timers

\* a retry test that still retries the attempt numbered max_retries
ShouldRetry_Inclusive(status, retry_count) ==
    /\ ~(status >= 200 /\ status < 300)
    /\ is_retryable_error(status)
    /\ retry_count <= max_retries

\* the retry test of process_job
ShouldRetry(status, retry_count) ==
    /\ ~(status >= 200 /\ status < 300)
    /\ is_retryable_error(status)
    /\ retry_count < max_retries

\* process_job after execute_node: classify the outcome and log it
Act(t) ==
    /\ task[t].pc = "act"
    /\ \E ok \in DbOutcomes :
        /\ dbFaults' = DbAfter(ok)
        /\ LET j == task[t]
               is_success == j.st >= 200 /\ j.st < 300
           IN IF j.wc THEN handle_cancelled(t, ok) /\ UNCHANGED pending
              ELSE IF is_suspended(j.st, node) THEN handle_suspended(t, ok) /\ UNCHANGED pending
              ELSE IF is_transient_db_error(j.st, j.err)
                   THEN ok /\ QueryFailed(t) /\ UNCHANGED <<run_events, retry_timers>>
              ELSE IF ShouldRetry(j.st, j.rc) THEN handle_retry(t, ok) /\ UNCHANGED pending
              ELSE handle_final_result(t, is_success, ok) /\ UNCHANGED pending
    /\ UNCHANGED <<stream, receipts, run_status, tokens, nextTok,
                   cancelledToks, notified, max_retries, failsLeft, failsInit,
                   finalStatus, node, published, crashes, dups, suspend_rows>>
    /\ UNCHANGED <<mapVars, schedVars, mainVars, delayVars, resumeVars, backoffVars>>

\* the rest of the branch: receipt, orchestrator notification, ack_message and,
\* for a cancelled node, CancellationRegistry::remove
Finish(t) ==
    /\ task[t].pc \in {"fin_cancel", "fin_susp", "fin_retry", "fin_final"}
    /\ LET j == task[t]
           is_success == j.st >= 200 /\ j.st < 300
       IN /\ receipts' = CASE j.pc = "fin_cancel" -> Put(receipts, 499)
                           [] j.pc = "fin_susp" -> Put(receipts, 202)
                           [] j.pc = "fin_final" -> Put(receipts, j.st)
                           [] OTHER -> receipts
          /\ notified' = IF j.pc = "fin_final" THEN Put(notified, is_success)
                         ELSE notified
          /\ tokens' = IF j.pc = "fin_cancel" THEN 0 ELSE tokens
          /\ task' = [task EXCEPT ![t] = Return(t)]
    /\ UNCHANGED <<stream, pending, retry_timers, run_events, run_status, nextTok,
                   cancelledToks, max_retries, failsLeft, failsInit, finalStatus, node,
                   published, dbFaults, crashes, dups, suspend_rows>>
    /\ UNCHANGED <<mapVars, schedVars, mainVars, delayVars, resumeVars, backoffVars>>

\* the detached task of handle_retry wakes up and re-enqueues the copy; a
\* failed connection or xadd is discarded and the task ends
RetryTimerFire ==
    /\ \E a \in Attempts, ok \in RedisOutcomes :
        /\ retry_timers[a] > 0
        /\ retry_timers' = [retry_timers EXCEPT ![a] = @ - 1]
        /\ IF ok
           THEN stream' = [stream EXCEPT ![a] = @ + 1] /\ UNCHANGED redisFaults
           ELSE redisFaults' = redisFaults - 1 /\ UNCHANGED stream
    /\ UNCHANGED <<pending, receipts, run_events, run_status, task, tokens, nextTok,
                   cancelledToks, notified, max_retries, failsLeft, failsInit,
                   finalStatus, node, published, dbFaults, crashes, dups, suspend_rows>>
    /\ UNCHANGED <<now, delayed, pushed, xadded, next_tick>>
    /\ UNCHANGED <<mapVars, schedVars, mainVars, resumeVars, backoffVars>>

\* main after ctrl_c: it waits until no job is in flight and returns; the
\* runtime is dropped with the detached tasks that still sleep their backoff,
\* and the registry goes with the process
Shutdown ==
    /\ \A t \in Tasks : task[t].pc = "idle"
    /\ \E a \in Attempts : retry_timers[a] > 0
    /\ retry_timers' = [a \in Attempts |-> 0]
    /\ tokens' = 0
    /\ UNCHANGED <<stream, pending, receipts, run_events, run_status, task, nextTok,
                   cancelledToks, notified, max_retries, failsLeft, failsInit,
                   finalStatus, node, published, dbFaults, crashes, dups, suspend_rows>>
    /\ UNCHANGED <<mapVars, schedVars, mainVars, delayVars, resumeVars, backoffVars>>

\* ------------------------------------------------------------------------
\* environment of the job lifecycle
\* ------------------------------------------------------------------------
\* the queue hands a never-ACKed message to a consumer again
Redeliver ==
    /\ \E a \in Attempts :
        /\ pending[a] > 0
        /\ pending' = [pending EXCEPT ![a] = @ - 1]
        /\ stream' = [stream EXCEPT ![a] = @ + 1]
    /\ UNCHANGED <<retry_timers, receipts, run_events, run_status, task, tokens,
                   nextTok, cancelledToks, notified, max_retries, failsLeft,
                   failsInit, finalStatus, node, published, dbFaults, crashes, dups, suspend_rows>>
    /\ UNCHANGED <<mapVars, schedVars, mainVars, delayVars, resumeVars, backoffVars>>

\* the job of attempt 0 is enqueued a second time
DuplicateEnqueue ==
    /\ dups > 0
    /\ dups' = dups - 1
    /\ stream' = [stream EXCEPT ![0] = @ + 1]
    /\ UNCHANGED <<pending, retry_timers, receipts, run_events, run_status, task,
                   tokens, nextTok, cancelledToks, notified, max_retries, failsLeft,
                   failsInit, finalStatus, node, published, dbFaults, crashes,
                   suspend_rows>>
    /\ UNCHANGED <<mapVars, schedVars, mainVars, delayVars, resumeVars, backoffVars>>

\* the worker process dies: its tasks and sleeping retry tasks are gone, the
\* messages it held stay un-ACKed, a new process starts with an empty registry
Crash ==
    /\ crashes > 0
    /\ \E t \in Tasks : task[t].pc # "idle"
    /\ crashes' = crashes - 1
    /\ pending' = [a \in Attempts |->
                     pending[a] + Cardinality({t \in Tasks :
                                    task[t].pc # "idle" /\ task[t].rc = a})]
    /\ task' = [t \in Tasks |-> IdleTask]
    /\ retry_timers' = [a \in Attempts |-> 0]
    /\ tokens' = 0
    /\ UNCHANGED <<stream, receipts, run_events, run_status, nextTok, cancelledToks,
                   notified, max_retries, failsLeft, failsInit, finalStatus, node,
                   published, dbFaults, dups, suspend_rows>>
    /\ UNCHANGED <<mapVars, schedVars, mainVars, delayVars, resumeVars, backoffVars>>

InExecutor(pc) == pc \in {"send", "await", "resp", "body"}

\* a cancel of the run: scheduler.rs check_subflow_timeouts sets the run to
\* cancelled (the UPDATE's failure is discarded) and publishes on cancel:<run>;
\* listen_for_cancellations hands the message to CancellationRegistry::cancel
PublishCancel ==
    /\ ~published
    /\ published' = TRUE
    /\ \E ok \in DbOutcomes :
        /\ dbFaults' = DbAfter(ok)
        /\ run_status' = IF ok THEN "cancelled" ELSE run_status
    /\ cancelledToks' = RegistryCancel
    /\ task' = [t \in Tasks |->
                  [task[t] EXCEPT !.atPub = IF InExecutor(task[t].pc)
                                            THEN task[t].pc ELSE "none"]]
    /\ UNCHANGED <<stream, pending, retry_timers, receipts, run_events, tokens,
                   nextTok, notified, max_retries, failsLeft, failsInit,
                   finalStatus, node, crashes, dups, suspend_rows>>
    /\ UNCHANGED <<mapVars, schedVars, mainVars, delayVars, resumeVars, backoffVars>>

\* the orchestrator marks the run failed (a node of the run failed for good)
RunFails ==
    /\ run_status = "running"
    /\ run_status' = "failed"
    /\ UNCHANGED <<stream, pending, retry_timers, receipts, run_events, task, tokens,
                   nextTok, cancelledToks, notified, max_retries, failsLeft, failsInit,
                   finalStatus, node, published, dbFaults, crashes, dups, suspend_rows>>
    /\ UNCHANGED <<mapVars, schedVars, mainVars, delayVars, resumeVars, backoffVars>>

\* ------------------------------------------------------------------------
\* nodes/map.rs: the map engine
\* ------------------------------------------------------------------------
Min(a, b) == IF a < b THEN a ELSE b

Max(a, b) == IF a > b THEN a ELSE b

\* the item indexes a batch can have
Items == 0..(MaxItems - 1)

BatchTerminal == {"completed", "failed", "timed_out", "cancelled"}

\* the MAPCHILDCOMPLETE job with item_index = -1 the scheduler pushes
Marker == [kind |-> "marker", idx |-> -1, ok |-> FALSE]

\* the MAPSTEP job
Step == [kind |-> "step", idx |-> -1, ok |-> FALSE]

\* the MAPCHILDCOMPLETE job of the child run of item i
ChildMsg(i, ok) == [kind |-> "child", idx |-> i, ok |-> ok]

MapMsgs == {ChildMsg(i, ok) : i \in Items, ok \in BOOLEAN} \cup {Marker, Step}

\* a process_job task that runs no map lifecycle job
IdleHandler ==
    [pc |-> "idle", msg |-> Marker, run_cancelled |-> FALSE, dup |-> FALSE,
     active_count |-> 0, current_index |-> 0, to_spawn |-> 0,
     failed_early |-> FALSE]

NoBatch ==
    [status |-> "none", total_items |-> 0, concurrency_limit |-> 0,
     fail_fast |-> FALSE, current_index |-> 0, active_count |-> 0,
     completed_count |-> 0, failed_count |-> 0]

\* is_run_cancelled: SELECT status FROM workflow_runs
is_run_cancelled == parent_status = "cancelled"

\* child workflow_runs rows inserted 'running' for items [start_idx, start_idx + count)
\* that exist, and their first jobs pushed
spawn_children(ch, start_idx, count, total) ==
    [i \in Items |->
        IF i >= start_idx /\ i < start_idx + count /\ i < total
        THEN ch[i] + 1 ELSE ch[i]]

\* the model follows an item until MaxSpawnsPerItem child runs were made for it
CanSpawn(start_idx, count, total) ==
    \A i \in Items :
        (i >= start_idx /\ i < start_idx + count /\ i < total)
            => spawned[i] < MaxSpawnsPerItem

\* one slot more than the limit leaves
SlotsAvailable_OneMore(concurrency, active_count) ==
    Max(concurrency - active_count, 0) + 1

\* slots_available of handle_child_complete and handle_map_step
SlotsAvailable(concurrency, active_count) == Max(concurrency - active_count, 0)

\* to_spawn of handle_child_complete and handle_map_step
ToSpawn(concurrency, active_count, total_items, current_index) ==
    Min(SlotsAvailable(concurrency, active_count),
        Max(total_items - current_index, 0))

\* --- handle_map_init ---
\* is_run_cancelled, the empty-items return
MapInitCheck ==
    /\ init_pc = "start"
    /\ init_pc' = IF is_run_cancelled THEN "failed"
                  ELSE IF map_data.items = 0 THEN "done"
                  ELSE "insert"
    /\ UNCHANGED <<map_data, batch, batch_results, children, spawned, mapq, hand,
                   parent_status, map_out, batch_events, sched, spawnFaults, staleLeft, map_unacked, map_notified>>
    /\ UNCHANGED <<jobVars, schedVars, mainVars, delayVars, resumeVars, backoffVars>>

\* INSERT INTO batch_operations, log NODE_SUSPENDED
MapInitInsert ==
    /\ init_pc = "insert"
    /\ batch' = [NoBatch EXCEPT
                   !.status = "running",
                   !.total_items = map_data.items,
                   !.concurrency_limit = Max(Min(map_data.concurrency, 200), 1),
                   !.fail_fast = map_data.fail_fast]
    /\ batch_events' = Put(batch_events, "NODE_SUSPENDED")
    /\ init_pc' = "spawn"
    /\ UNCHANGED <<map_data, batch_results, children, spawned, mapq, hand, parent_status,
                   map_out, sched, spawnFaults, staleLeft, map_unacked, map_notified>>
    /\ UNCHANGED <<jobVars, schedVars, mainVars, delayVars, resumeVars, backoffVars>>

\* initial_count of handle_map_init
InitialCount == Min(Max(Min(map_data.concurrency, 200), 1), map_data.items)

\* spawn_children(.., 0, initial_count)
MapInitSpawn ==
    /\ init_pc = "spawn"
    /\ CanSpawn(0, InitialCount, map_data.items)
    /\ children' = spawn_children(children, 0, InitialCount, map_data.items)
    /\ spawned' = spawn_children(spawned, 0, InitialCount, map_data.items)
    /\ init_pc' = "write"
    /\ UNCHANGED <<map_data, batch, batch_results, mapq, hand, parent_status,
                   map_out, batch_events, sched, spawnFaults, staleLeft, map_unacked, map_notified>>
    /\ UNCHANGED <<jobVars, schedVars, mainVars, delayVars, resumeVars, backoffVars>>

\* UPDATE batch_operations SET current_index = $1, active_count = $2
MapInitWrite ==
    /\ init_pc = "write"
    /\ batch' = [batch EXCEPT !.current_index = InitialCount,
                              !.active_count = InitialCount]
    /\ init_pc' = "done"
    /\ UNCHANGED <<map_data, batch_results, children, spawned, mapq, hand, parent_status,
                   map_out, batch_events, sched, spawnFaults, staleLeft, map_unacked, map_notified>>
    /\ UNCHANGED <<jobVars, schedVars, mainVars, delayVars, resumeVars, backoffVars>>

handle_map_init ==
    \/ MapInitCheck
    \/ MapInitInsert
    \/ MapInitSpawn
    \/ MapInitWrite

\* --- process_job for the map lifecycle jobs ---
\* the task process_job starts for the lifecycle job m; its run-status check
\* ACKs and skips the job of a cancelled run
StartJob(m) ==
    IF is_run_cancelled THEN IdleHandler
    ELSE [IdleHandler EXCEPT
            !.msg = m,
            !.failed_early = (m.kind = "marker"),
            !.pc = CASE m.kind = "marker" -> "cb_status"
                     [] m.kind = "step" -> "step_check"
                     [] m.idx % 10 = 0 -> "cancel_check"
                     [] OTHER -> "insert"]

\* read_next_job hands a queued lifecycle job to a new task
MapDeliver(h) ==
    /\ hand[h].pc = "idle"
    /\ \A g \in Handlers : g < h => hand[g].pc # "idle"
    /\ \E m \in MapMsgs :
        /\ mapq[m] > 0
        /\ mapq' = [mapq EXCEPT ![m] = @ - 1]
        /\ hand' = [hand EXCEPT ![h] = StartJob(m)]
    /\ UNCHANGED <<map_data, batch, batch_results, children, spawned, init_pc,
                   parent_status, map_out, batch_events, sched, spawnFaults, staleLeft, map_unacked, map_notified>>
    /\ UNCHANGED <<jobVars, schedVars, mainVars, delayVars, resumeVars, backoffVars>>

\* a child run ends, the orchestrator enqueues its MAPCHILDCOMPLETE job and
\* read_next_job hands it to a new task
ChildRunEnds(h) ==
    /\ hand[h].pc = "idle"
    /\ \A g \in Handlers : g < h => hand[g].pc # "idle"
    /\ \E i \in Items, ok \in BOOLEAN :
        /\ children[i] > 0
        /\ children' = [children EXCEPT ![i] = @ - 1]
        /\ hand' = [hand EXCEPT ![h] = StartJob(ChildMsg(i, ok))]
    /\ UNCHANGED spawned
    /\ UNCHANGED <<map_data, batch, batch_results, mapq, init_pc,
                   parent_status, map_out, batch_events, sched, spawnFaults, staleLeft, map_unacked, map_notified>>
    /\ UNCHANGED <<jobVars, schedVars, mainVars, delayVars, resumeVars, backoffVars>>

\* the lifecycle branch of process_job: a job whose handler answered 500 is
\* returned without ack_message, whatever the error
LifecycleUnacked(h, status, transient) ==
    IF status = 500
    THEN map_unacked \cup {[kind |-> hand[h].msg.kind, transient |-> transient]}
    ELSE map_unacked

\* the lifecycle branch of process_job: status 200 notifies the orchestrator
\* of a success; no other status notifies
LifecycleNotified(status) ==
    IF status = 200 THEN Put(map_notified, TRUE) ELSE map_notified

\* the job is ACKed and its task ends
MapAck(h) == [hand EXCEPT ![h] = IdleHandler]

\* --- handle_child_complete ---
\* is_run_cancelled, sampled when item_index % 10 == 0
ChildCancelCheck(h) ==
    /\ hand[h].pc = "cancel_check"
    /\ hand' = [hand EXCEPT ![h] = [@ EXCEPT !.pc = "insert",
                                             !.run_cancelled = is_run_cancelled]]
    /\ UNCHANGED <<map_data, batch, batch_results, children, spawned, mapq, init_pc,
                   parent_status, map_out, batch_events, sched, spawnFaults, staleLeft, map_unacked, map_notified>>
    /\ UNCHANGED <<jobVars, schedVars, mainVars, delayVars, resumeVars, backoffVars>>

\* an INSERT that reports a row even when the row was already there
RowsAffected_NoConflict(idx) == 1

\* rows_affected of INSERT INTO batch_results .. ON CONFLICT DO NOTHING
RowsAffected(idx) == IF batch_results[idx] = "none" THEN 1 ELSE 0

\* the INSERT and the test of rows_affected
ChildInsert(h) ==
    /\ hand[h].pc = "insert"
    /\ LET m == hand[h].msg
           existed == batch_results[m.idx] # "none"
       IN /\ batch_results' =
                IF existed THEN batch_results
                ELSE [batch_results EXCEPT
                        ![m.idx] = IF m.ok THEN "completed" ELSE "failed"]
          /\ hand' = [hand EXCEPT ![h] =
                        [@ EXCEPT !.dup = existed,
                                  !.pc = IF RowsAffected(m.idx) = 0
                                         THEN "dup_read" ELSE "update"]]
    /\ UNCHANGED <<map_data, batch, children, spawned, mapq, init_pc, parent_status,
                   map_out, batch_events, sched, spawnFaults, staleLeft, map_unacked, map_notified>>
    /\ UNCHANGED <<jobVars, schedVars, mainVars, delayVars, resumeVars, backoffVars>>

\* a batch taken for done one result early
AllDone_Early(total_finished, total_items) == total_finished >= total_items - 1

\* the test "all done" of handle_child_complete
AllDone(total_finished, total_items) == total_finished >= total_items

\* the duplicate path: re-read the counters, finalize a batch that is done
\* and still running, else answer 202 duplicate
ChildDuplicate(h) ==
    /\ hand[h].pc = "dup_read"
    /\ hand' = IF /\ batch.status = "running"
                  /\ AllDone(batch.completed_count + batch.failed_count,
                             batch.total_items)
               THEN [hand EXCEPT ![h] = [@ EXCEPT !.pc = "cb_status",
                                                  !.failed_early = FALSE]]
               ELSE MapAck(h)
    /\ UNCHANGED <<map_data, batch, batch_results, children, spawned, mapq, init_pc,
                   parent_status, map_out, batch_events, sched, spawnFaults, staleLeft, map_unacked, map_notified>>
    /\ UNCHANGED <<jobVars, schedVars, mainVars, delayVars, resumeVars, backoffVars>>

\* UPDATE batch_operations SET completed_count/failed_count + 1,
\* active_count - 1 .. RETURNING, and the decisions taken on the returned row
ChildUpdate(h) ==
    /\ hand[h].pc = "update"
    /\ LET m == hand[h].msg
           row == IF m.ok
                  THEN [batch EXCEPT !.completed_count = @ + 1, !.active_count = @ - 1]
                  ELSE [batch EXCEPT !.failed_count = @ + 1, !.active_count = @ - 1]
           total_finished == row.completed_count + row.failed_count
           to_spawn == ToSpawn(row.concurrency_limit, row.active_count,
                               row.total_items, row.current_index)
       IN /\ batch' = row
          /\ hand' =
               IF row.fail_fast /\ row.failed_count > 0
               THEN [hand EXCEPT ![h] = [@ EXCEPT !.pc = "cb_status",
                                                  !.failed_early = TRUE]]
               ELSE IF AllDone(total_finished, row.total_items)
               THEN [hand EXCEPT ![h] = [@ EXCEPT !.pc = "cb_status",
                                                  !.failed_early = FALSE]]
               ELSE IF /\ ~hand[h].run_cancelled
                       /\ row.active_count < row.concurrency_limit
                       /\ row.current_index < row.total_items
               THEN IF to_spawn > 0
                    THEN [hand EXCEPT ![h] =
                            [@ EXCEPT !.pc = "spawn",
                                      !.active_count = row.active_count,
                                      !.current_index = row.current_index,
                                      !.to_spawn = to_spawn]]
                    ELSE MapAck(h)
               ELSE IF hand[h].run_cancelled
               THEN [hand EXCEPT ![h] = [@ EXCEPT !.pc = "cancel_batch"]]
               ELSE MapAck(h)
    /\ UNCHANGED <<map_data, batch_results, children, spawned, mapq, init_pc, parent_status,
                   map_out, batch_events, sched, spawnFaults, staleLeft, map_unacked, map_notified>>
    /\ UNCHANGED <<jobVars, schedVars, mainVars, delayVars, resumeVars, backoffVars>>

\* the outcomes spawn_children_cached can have while failures remain
SpawnOutcomes == IF spawnFaults > 0 THEN {TRUE, FALSE} ELSE {TRUE}

\* spawn_children_cached; its error makes the job answer 500, which
\* process_job leaves un-ACKed, so the queue delivers the job again
ChildSpawn(h) ==
    /\ hand[h].pc = "spawn"
    /\ \E ok \in SpawnOutcomes :
        IF ok
        THEN /\ CanSpawn(hand[h].current_index, hand[h].to_spawn, batch.total_items)
             /\ children' = spawn_children(children, hand[h].current_index,
                                           hand[h].to_spawn, batch.total_items)
             /\ spawned' = spawn_children(spawned, hand[h].current_index,
                                          hand[h].to_spawn, batch.total_items)
             /\ hand' = [hand EXCEPT ![h] = [@ EXCEPT !.pc = "write"]]
             /\ UNCHANGED <<mapq, spawnFaults, map_unacked>>
        ELSE /\ spawnFaults' = spawnFaults - 1
             /\ mapq' = [mapq EXCEPT ![hand[h].msg] = @ + 1]
             /\ map_unacked' = LifecycleUnacked(h, 500, TRUE)
             /\ hand' = MapAck(h)
             /\ UNCHANGED <<children, spawned>>
    /\ UNCHANGED <<map_data, batch, batch_results, init_pc, parent_status,
                   map_out, batch_events, sched, staleLeft, map_notified>>
    /\ UNCHANGED <<jobVars, schedVars, mainVars, delayVars, resumeVars, backoffVars>>

\* UPDATE batch_operations SET current_index = $1, active_count = $2 with the
\* values computed from the row returned earlier
ChildWrite(h) ==
    /\ hand[h].pc = "write"
    /\ batch' = [batch EXCEPT
                   !.current_index = hand[h].current_index + hand[h].to_spawn,
                   !.active_count = hand[h].active_count + hand[h].to_spawn]
    /\ hand' = MapAck(h)
    /\ UNCHANGED <<map_data, batch_results, children, spawned, mapq, init_pc, parent_status,
                   map_out, batch_events, sched, spawnFaults, staleLeft, map_unacked, map_notified>>
    /\ UNCHANGED <<jobVars, schedVars, mainVars, delayVars, resumeVars, backoffVars>>

\* cancel_batch: UPDATE .. SET status = 'cancelled' WHERE status = 'running'
cancel_batch == IF batch.status = "running"
                THEN [batch EXCEPT !.status = "cancelled"] ELSE batch

ChildCancelBatch(h) ==
    /\ hand[h].pc = "cancel_batch"
    /\ batch' = cancel_batch
    /\ hand' = MapAck(h)
    /\ UNCHANGED <<map_data, batch_results, children, spawned, mapq, init_pc, parent_status,
                   map_out, batch_events, sched, spawnFaults, staleLeft, map_unacked, map_notified>>
    /\ UNCHANGED <<jobVars, schedVars, mainVars, delayVars, resumeVars, backoffVars>>

\* the steps of handle_child_complete a run that is never cancelled takes
ChildCompleteSteps(h) ==
    \/ ChildCancelCheck(h)
    \/ ChildInsert(h)
    \/ ChildDuplicate(h)
    \/ ChildUpdate(h)
    \/ ChildSpawn(h)
    \/ ChildWrite(h)

handle_child_complete(h) ==
    \/ ChildCompleteSteps(h)
    \/ ChildCancelBatch(h)

\* --- complete_batch ---
\* UPDATE batch_operations SET status = 'failed' | 'completed'
CompleteStatus(h) ==
    /\ hand[h].pc = "cb_status"
    /\ batch' = [batch EXCEPT !.status = IF hand[h].failed_early
                                         THEN "failed" ELSE "completed"]
    /\ hand' = [hand EXCEPT ![h] = [@ EXCEPT !.pc = "cb_results"]]
    /\ UNCHANGED <<map_data, batch_results, children, spawned, mapq, init_pc, parent_status,
                   map_out, batch_events, sched, spawnFaults, staleLeft, map_unacked, map_notified>>
    /\ UNCHANGED <<jobVars, schedVars, mainVars, delayVars, resumeVars, backoffVars>>

\* status_code of complete_batch
CompleteStatusCode_FailedEarlyOnly(failed_early, failed_count, total_items) ==
    IF failed_early THEN 500 ELSE 200

CompleteStatusCode(failed_early, failed_count, total_items) ==
    IF failed_early \/ failed_count = total_items THEN 500 ELSE 200

\* route_to of the body complete_batch returns
RouteTo(failed_early, failed_count, total_items) ==
    IF failed_early \/ failed_count = total_items THEN "error" ELSE "success"

\* the output a child run of item i reported (data.output), named by its item
ItemOutput(i) == i

\* complete_batch: outputs = vec![None; total_items]; the rows of
\* batch_results in the order of item_index: a completed row puts its output
\* at its index, any other row pushes {index, error}; a row whose index is not
\* below total_items is skipped
RECURSIVE AggregateRows(_, _, _)
AggregateRows(idx, outputs, errors) ==
    IF idx >= MaxItems
    THEN [outputs |-> outputs, errors |-> errors]
    ELSE IF batch_results[idx] = "none" \/ idx >= Len(outputs)
    THEN AggregateRows(idx + 1, outputs, errors)
    ELSE IF batch_results[idx] = "completed"
    THEN AggregateRows(idx + 1, [outputs EXCEPT ![idx + 1] = ItemOutput(idx)], errors)
    ELSE AggregateRows(idx + 1, outputs, Append(errors, [index |-> idx, error |-> "failed"]))

\* SELECT .. FROM batch_results ORDER BY item_index; SELECT total_items,
\* completed_count, failed_count; build the output array, log NODE_FAILED or
\* NODE_COMPLETED, answer 500 or 200
CompleteAggregate(h) ==
    /\ hand[h].pc = "cb_results"
    /\ batch_events' = Put(batch_events, IF hand[h].failed_early
                                         THEN "NODE_FAILED" ELSE "NODE_COMPLETED")
    /\ LET status == CompleteStatusCode(hand[h].failed_early,
                                             batch.failed_count, batch.total_items)
           agg == AggregateRows(0, [i \in 1..batch.total_items |-> NULL], <<>>)
       IN /\ map_out' = map_out \cup
                {[status_code |-> status,
                  route_to |-> RouteTo(hand[h].failed_early, batch.failed_count,
                                       batch.total_items),
                  results |-> agg.outputs,
                  errors |-> agg.errors,
                  results_len |-> Len(agg.outputs),
                  rows |-> Cardinality({i \in Items : batch_results[i] # "none"})]}
          /\ map_unacked' = LifecycleUnacked(h, status, FALSE)
          /\ map_notified' = LifecycleNotified(status)
    /\ hand' = MapAck(h)
    /\ UNCHANGED <<map_data, batch, batch_results, children, spawned, mapq, init_pc,
                   parent_status, sched, spawnFaults, staleLeft>>
    /\ UNCHANGED <<jobVars, schedVars, mainVars, delayVars, resumeVars, backoffVars>>

complete_batch(h) ==
    \/ CompleteStatus(h)
    \/ CompleteAggregate(h)

\* --- handle_map_step ---
\* is_run_cancelled: cancel the batch and answer 202
StepCancelCheck(h) ==
    /\ hand[h].pc = "step_check"
    /\ IF is_run_cancelled
       THEN /\ batch' = cancel_batch
            /\ hand' = MapAck(h)
       ELSE /\ hand' = [hand EXCEPT ![h] = [@ EXCEPT !.pc = "step_tx"]]
            /\ UNCHANGED batch
    /\ UNCHANGED <<map_data, batch_results, children, spawned, mapq, init_pc, parent_status,
                   map_out, batch_events, sched, spawnFaults, staleLeft, map_unacked, map_notified>>
    /\ UNCHANGED <<jobVars, schedVars, mainVars, delayVars, resumeVars, backoffVars>>

\* the transaction: SELECT .. FOR UPDATE, claim the slots, commit
StepClaim(h) ==
    /\ hand[h].pc = "step_tx"
    /\ LET to_spawn == ToSpawn(batch.concurrency_limit, batch.active_count,
                               batch.total_items, batch.current_index)
       IN IF batch.status # "running" \/ to_spawn = 0
          THEN /\ hand' = MapAck(h)
               /\ UNCHANGED batch
          ELSE /\ batch' = [batch EXCEPT
                              !.current_index = @ + to_spawn,
                              !.active_count = @ + to_spawn]
               /\ hand' = [hand EXCEPT ![h] =
                             [@ EXCEPT !.pc = "step_spawn",
                                       !.current_index = batch.current_index,
                                       !.active_count = batch.active_count,
                                       !.to_spawn = to_spawn]]
    /\ UNCHANGED <<map_data, batch_results, children, spawned, mapq, init_pc, parent_status,
                   map_out, batch_events, sched, spawnFaults, staleLeft, map_unacked, map_notified>>
    /\ UNCHANGED <<jobVars, schedVars, mainVars, delayVars, resumeVars, backoffVars>>

\* spawn_children outside the transaction, after the claim was committed; its
\* error makes the job answer 500, which process_job leaves un-ACKed
StepSpawn(h) ==
    /\ hand[h].pc = "step_spawn"
    /\ \E ok \in SpawnOutcomes :
        IF ok
        THEN /\ CanSpawn(hand[h].current_index, hand[h].to_spawn, batch.total_items)
             /\ children' = spawn_children(children, hand[h].current_index,
                                           hand[h].to_spawn, batch.total_items)
             /\ spawned' = spawn_children(spawned, hand[h].current_index,
                                          hand[h].to_spawn, batch.total_items)
             /\ UNCHANGED <<mapq, spawnFaults, map_unacked>>
        ELSE /\ spawnFaults' = spawnFaults - 1
             /\ mapq' = [mapq EXCEPT ![hand[h].msg] = @ + 1]
             /\ map_unacked' = LifecycleUnacked(h, 500, TRUE)
             /\ UNCHANGED <<children, spawned>>
    /\ hand' = MapAck(h)
    /\ UNCHANGED <<map_data, batch, batch_results, init_pc, parent_status,
                   map_out, batch_events, sched, staleLeft, map_notified>>
    /\ UNCHANGED <<jobVars, schedVars, mainVars, delayVars, resumeVars, backoffVars>>

\* the worker dies in handle_child_complete after the UPDATE that counted the
\* last item and before complete_batch; the job stays in the pending list,
\* which read_next_job (XREADGROUP ">") never reads
WorkerCrash(h) ==
    /\ hand[h].pc = "cb_status"
    /\ hand[h].msg.kind = "child"
    /\ hand' = MapAck(h)
    /\ UNCHANGED <<map_data, batch, batch_results, children, spawned, mapq, init_pc, parent_status,
                   map_out, batch_events, sched, spawnFaults, staleLeft, map_unacked, map_notified>>
    /\ UNCHANGED <<jobVars, schedVars, mainVars, delayVars, resumeVars, backoffVars>>

handle_map_step(h) ==
    \/ StepCancelCheck(h)
    \/ StepClaim(h)
    \/ StepSpawn(h)

\* --- scheduler.rs: batch recovery ---
\* check_batch_timeouts: the SELECT finds the running batch past its timeout
\* (timeout_ms after its creation, when handle_map_init has returned)
BatchTimeoutSelect ==
    /\ sched = "idle"
    /\ batch.status = "running"
    /\ init_pc = "done"
    /\ sched' = "timeout"
    /\ UNCHANGED <<map_data, batch, batch_results, children, spawned, mapq, hand, init_pc,
                   parent_status, map_out, batch_events, spawnFaults, staleLeft, map_unacked, map_notified>>
    /\ UNCHANGED <<jobVars, schedVars, mainVars, delayVars, resumeVars, backoffVars>>

\* check_batch_timeouts: mark the batch timed_out whatever its status is now,
\* cancel the child runs, log NODE_FAILED, push the marker
BatchTimeoutWrite ==
    /\ sched = "timeout"
    /\ sched' = "idle"
    /\ batch' = [batch EXCEPT !.status = "timed_out"]
    /\ children' = [i \in Items |-> 0]
    /\ UNCHANGED spawned
    /\ batch_events' = Put(batch_events, "NODE_FAILED")
    /\ mapq' = [mapq EXCEPT ![Marker] = @ + 1]
    /\ UNCHANGED <<map_data, batch_results, hand, init_pc, parent_status, map_out,
                   spawnFaults, staleLeft, map_unacked, map_notified>>
    /\ UNCHANGED <<jobVars, schedVars, mainVars, delayVars, resumeVars, backoffVars>>

\* check_stale_batches: a running batch with active_count = 0 and items left
\* gets a MAPSTEP job while the cursor has not reached the end; otherwise its
\* orphaned children are failed and the marker is pushed. The check comes
\* back every 30 s, after the job of its previous round was read; staleLeft
\* counts the rounds followed, NULL follows them all
check_stale_batches ==
    /\ sched = "idle"
    /\ staleLeft # 0
    /\ mapq[Step] = 0 /\ mapq[Marker] = 0
    /\ batch.status = "running"
    /\ batch.active_count = 0
    /\ batch.completed_count + batch.failed_count < batch.total_items
    /\ staleLeft' = IF staleLeft = NULL THEN NULL ELSE staleLeft - 1
    /\ IF batch.current_index < batch.total_items
       THEN /\ mapq' = [mapq EXCEPT ![Step] = @ + 1]
            /\ UNCHANGED <<children, spawned>>
       ELSE IF \E i \in Items : children[i] > 0
       THEN /\ children' = [i \in Items |-> 0]
            /\ mapq' = [mapq EXCEPT ![Marker] = @ + 1]
            /\ UNCHANGED spawned
       ELSE UNCHANGED <<mapq, children, spawned>>
    /\ UNCHANGED <<map_data, batch, batch_results, hand, init_pc, parent_status,
                   map_out, batch_events, sched, spawnFaults, map_unacked, map_notified>>
    /\ UNCHANGED <<jobVars, schedVars, mainVars, delayVars, resumeVars, backoffVars>>

\* --- environment of the map engine ---
\* the parent run is cancelled while its batch runs
CancelParentRun ==
    /\ parent_status = "running"
    /\ batch.status = "running"
    /\ init_pc = "done"
    /\ parent_status' = "cancelled"
    /\ UNCHANGED <<map_data, batch, batch_results, children, spawned, mapq, hand, init_pc,
                   map_out, batch_events, sched, spawnFaults, staleLeft, map_unacked, map_notified>>
    /\ UNCHANGED <<jobVars, schedVars, mainVars, delayVars, resumeVars, backoffVars>>

MapInitCommon ==
    /\ map_data \in [items : 0..MaxItems, concurrency : 1..MaxConcurrency,
                     fail_fast : BOOLEAN]
    /\ map_data.items + map_data.concurrency <= MaxLoad
    /\ batch = NoBatch
    /\ batch_results = [i \in Items |-> "none"]
    /\ children = [i \in Items |-> 0]
    /\ spawned = [i \in Items |-> 0]
    /\ mapq = [m \in MapMsgs |-> 0]
    /\ hand = [h \in Handlers |-> IdleHandler]
    /\ init_pc = "start"
    /\ parent_status = "running"
    /\ map_out = {}
    /\ batch_events = [e \in {"NODE_SUSPENDED", "NODE_COMPLETED", "NODE_FAILED"} |-> 0]
    /\ sched = "idle"
    /\ map_unacked = {}
    /\ map_notified = [b \in BOOLEAN |-> 0]

\* no map node in the run: the map engine never acts
MapIdle ==
    /\ map_data = [items |-> 0, concurrency |-> 0, fail_fast |-> FALSE]
    /\ batch = NoBatch
    /\ batch_results = [i \in Items |-> "none"]
    /\ children = [i \in Items |-> 0]
    /\ spawned = [i \in Items |-> 0]
    /\ mapq = [m \in MapMsgs |-> 0]
    /\ hand = [h \in Handlers |-> IdleHandler]
    /\ init_pc = "done"
    /\ parent_status = "running"
    /\ map_out = {}
    /\ batch_events = [e \in {"NODE_SUSPENDED", "NODE_COMPLETED", "NODE_FAILED"} |-> 0]
    /\ sched = "idle"
    /\ map_unacked = {}
    /\ map_notified = [b \in BOOLEAN |-> 0]
    /\ spawnFaults = 0
    /\ staleLeft = 0

\* ------------------------------------------------------------------------
\* scheduler.rs: suspension expiry and sub-flow timeouts
\* ------------------------------------------------------------------------
\* the scheduler loops, one in every worker process
Schedulers == 1..NSchedulers

Suspensions == 1..NSuspensions

\* no suspensions row with this id
NoSuspension ==
    [suspension_type |-> "none", due |-> FALSE, resumed_at |-> FALSE,
     resumed_by |-> "none"]

\* a check of the scheduler that is not running
IdleLoop == [pc |-> "idle", rows |-> {}, cur |-> 0]

\* for ... in rows: the loop takes the rows in the order the SELECT, which
\* has no ORDER BY, returned them
NextRows(rows, first_pc) ==
    IF rows = {} THEN {IdleLoop}
    ELSE {[pc |-> first_pc, rows |-> rows \ {i}, cur |-> i] : i \in rows}

\* WHERE resumed_at IS NULL AND expires_at IS NOT NULL AND expires_at < NOW()
ExpiredRows ==
    {i \in Suspensions :
        /\ suspensions[i].suspension_type = "webhook"
        /\ ~suspensions[i].resumed_at
        /\ suspensions[i].due}

\* UPDATE suspensions SET resumed_at = NOW(), resumed_by = ... WHERE id = $2
Resolve(row, by) == [row EXCEPT !.resumed_at = TRUE, !.resumed_by = by]

\* check_expired_suspensions: the SELECT
ExpirySelect(s) ==
    /\ expiry[s].pc = "idle"
    /\ ExpiredRows # {}
    /\ \E n \in NextRows(ExpiredRows, "log") :
          expiry' = [expiry EXCEPT ![s] = n]
    /\ UNCHANGED <<suspensions, timeout_events, resume_jobs, child_run,
                   waiting_run, subflow>>
    /\ UNCHANGED <<jobVars, mapVars, cronVars, mainVars, delayVars, resumeVars, backoffVars>>

\* check_expired_suspensions: INSERT INTO run_events ... 'NODE_FAILED'
ExpiryLog(s) ==
    /\ expiry[s].pc = "log"
    /\ timeout_events' =
          [timeout_events EXCEPT ![expiry[s].cur] = timeout_events[expiry[s].cur] + 1]
    /\ expiry' = [expiry EXCEPT ![s].pc = "resolve"]
    /\ UNCHANGED <<suspensions, resume_jobs, child_run, waiting_run, subflow>>
    /\ UNCHANGED <<jobVars, mapVars, cronVars, mainVars, delayVars, resumeVars, backoffVars>>

\* check_expired_suspensions: the UPDATE, then the next row
ExpiryResolve(s) ==
    /\ expiry[s].pc = "resolve"
    /\ suspensions' =
          [suspensions EXCEPT
              ![expiry[s].cur] = Resolve(suspensions[expiry[s].cur], "scheduler:timeout")]
    /\ \E n \in NextRows(expiry[s].rows, "log") :
          expiry' = [expiry EXCEPT ![s] = n]
    /\ UNCHANGED <<timeout_events, resume_jobs, child_run, waiting_run, subflow>>
    /\ UNCHANGED <<jobVars, mapVars, cronVars, mainVars, delayVars, resumeVars, backoffVars>>

check_expired_suspensions(s) ==
    \/ ExpirySelect(s)
    \/ ExpiryLog(s)
    \/ ExpiryResolve(s)

\* WHERE resumed_at IS NULL AND suspension_type = 'subflow'
\*   AND resume_after IS NOT NULL AND resume_after < NOW()
TimedOutRows ==
    {i \in Suspensions :
        /\ suspensions[i].suspension_type = "subflow"
        /\ ~suspensions[i].resumed_at
        /\ suspensions[i].due}

ChildFinished == {"completed", "failed", "cancelled"}

\* check_subflow_timeouts: the SELECT
SubflowSelect(s) ==
    /\ subflow[s].pc = "idle"
    /\ TimedOutRows # {}
    /\ \E n \in NextRows(TimedOutRows, "child") :
          subflow' = [subflow EXCEPT ![s] = n]
    /\ UNCHANGED <<suspensions, timeout_events, resume_jobs, child_run,
                   waiting_run, expiry>>
    /\ UNCHANGED <<jobVars, mapVars, cronVars, mainVars, delayVars, resumeVars, backoffVars>>

\* check_subflow_timeouts: SELECT status FROM workflow_runs of the child
SubflowChildStatus(s) ==
    /\ subflow[s].pc = "child"
    /\ subflow' = [subflow EXCEPT
          ![s].pc = IF child_run[subflow[s].cur] \in ChildFinished
                    THEN "finished" ELSE "cancel"]
    /\ UNCHANGED <<suspensions, timeout_events, resume_jobs, child_run,
                   waiting_run, expiry>>
    /\ UNCHANGED <<jobVars, mapVars, cronVars, mainVars, delayVars, resumeVars, backoffVars>>

\* check_subflow_timeouts: the child already finished, resolve and continue
SubflowChildFinished(s) ==
    /\ subflow[s].pc = "finished"
    /\ suspensions' =
          [suspensions EXCEPT
              ![subflow[s].cur] =
                  Resolve(suspensions[subflow[s].cur], "scheduler:child_finished")]
    /\ \E n \in NextRows(subflow[s].rows, "child") :
          subflow' = [subflow EXCEPT ![s] = n]
    /\ UNCHANGED <<timeout_events, resume_jobs, child_run, waiting_run, expiry>>
    /\ UNCHANGED <<jobVars, mapVars, cronVars, mainVars, delayVars, resumeVars, backoffVars>>

\* check_subflow_timeouts: UPDATE workflow_runs SET status = 'cancelled' of
\* the child, publish cancel:<child>
SubflowCancelChild(s) ==
    /\ subflow[s].pc = "cancel"
    /\ child_run' = [child_run EXCEPT ![subflow[s].cur] = "cancelled"]
    /\ subflow' = [subflow EXCEPT ![s].pc = "enqueue"]
    /\ UNCHANGED <<suspensions, timeout_events, resume_jobs, waiting_run, expiry>>
    /\ UNCHANGED <<jobVars, mapVars, cronVars, mainVars, delayVars, resumeVars, backoffVars>>

\* check_subflow_timeouts: xadd of the SUBFLOWRESUME job
SubflowEnqueue(s) ==
    /\ subflow[s].pc = "enqueue"
    /\ resume_jobs' =
          [resume_jobs EXCEPT ![subflow[s].cur] = resume_jobs[subflow[s].cur] + 1]
    /\ subflow' = [subflow EXCEPT ![s].pc = "resolve"]
    /\ UNCHANGED <<suspensions, timeout_events, child_run, waiting_run, expiry>>
    /\ UNCHANGED <<jobVars, mapVars, cronVars, mainVars, delayVars, resumeVars, backoffVars>>

\* check_subflow_timeouts: mark the suspension resolved
SubflowResolve(s) ==
    /\ subflow[s].pc = "resolve"
    /\ suspensions' =
          [suspensions EXCEPT
              ![subflow[s].cur] = Resolve(suspensions[subflow[s].cur], "scheduler:timeout")]
    /\ subflow' = [subflow EXCEPT ![s].pc = "parent"]
    /\ UNCHANGED <<timeout_events, resume_jobs, child_run, waiting_run, expiry>>
    /\ UNCHANGED <<jobVars, mapVars, cronVars, mainVars, delayVars, resumeVars, backoffVars>>

\* check_subflow_timeouts: parent run back to 'running', then the next row
SubflowParentRunning(s) ==
    /\ subflow[s].pc = "parent"
    /\ waiting_run' = [waiting_run EXCEPT ![subflow[s].cur] = "running"]
    /\ \E n \in NextRows(subflow[s].rows, "child") :
          subflow' = [subflow EXCEPT ![s] = n]
    /\ UNCHANGED <<suspensions, timeout_events, resume_jobs, child_run, expiry>>
    /\ UNCHANGED <<jobVars, mapVars, cronVars, mainVars, delayVars, resumeVars, backoffVars>>

check_subflow_timeouts(s) ==
    \/ SubflowSelect(s)
    \/ SubflowChildStatus(s)
    \/ SubflowChildFinished(s)
    \/ SubflowCancelChild(s)
    \/ SubflowEnqueue(s)
    \/ SubflowResolve(s)
    \/ SubflowParentRunning(s)

\* --- environment of the suspensions ---
\* NOW() passes expires_at (webhook) or resume_after (subflow)
DeadlinePasses(i) ==
    /\ suspensions[i].suspension_type # "none"
    /\ ~suspensions[i].due
    /\ suspensions' = [suspensions EXCEPT ![i].due = TRUE]
    /\ UNCHANGED <<timeout_events, resume_jobs, child_run, waiting_run,
                   expiry, subflow>>
    /\ UNCHANGED <<jobVars, mapVars, cronVars, mainVars, delayVars, resumeVars, backoffVars>>

\* the child run of a sub-flow suspension finishes by itself
SubflowChildEnds(i) ==
    /\ suspensions[i].suspension_type = "subflow"
    /\ child_run[i] = "running"
    /\ child_run' = [child_run EXCEPT ![i] = "completed"]
    /\ UNCHANGED <<suspensions, timeout_events, resume_jobs, waiting_run,
                   expiry, subflow>>
    /\ UNCHANGED <<jobVars, mapVars, cronVars, mainVars, delayVars, resumeVars, backoffVars>>

\* rows as nodes/webhook.rs and nodes/subflow.rs insert them
NewSuspension(type) ==
    [suspension_type |-> type, due |-> FALSE, resumed_at |-> FALSE,
     resumed_by |-> "none"]

SuspInitCommon ==
    /\ suspensions \in [Suspensions -> {NewSuspension("webhook"), NewSuspension("subflow")}]
    /\ timeout_events = [i \in Suspensions |-> 0]
    /\ resume_jobs = [i \in Suspensions |-> 0]
    /\ child_run = [i \in Suspensions |->
          IF suspensions[i].suspension_type = "subflow" THEN "running" ELSE "none"]
    /\ waiting_run = [i \in Suspensions |-> "suspended"]
    /\ expiry = [s \in Schedulers |-> IdleLoop]
    /\ subflow = [s \in Schedulers |-> IdleLoop]

\* no suspension exists: the two checks find nothing
SuspIdle ==
    /\ suspensions = [i \in Suspensions |-> NoSuspension]
    /\ timeout_events = [i \in Suspensions |-> 0]
    /\ resume_jobs = [i \in Suspensions |-> 0]
    /\ child_run = [i \in Suspensions |-> "none"]
    /\ waiting_run = [i \in Suspensions |-> "suspended"]
    /\ expiry = [s \in Schedulers |-> IdleLoop]
    /\ subflow = [s \in Schedulers |-> IdleLoop]

\* ------------------------------------------------------------------------
\* scheduler.rs: cron firing
\* ------------------------------------------------------------------------
\* ids of the workflow_runs rows the scheduler can insert
CronRuns == 1..MaxCronRuns

IdleCron == [pc |-> "idle", running_count |-> 0, run_id |-> 0]

\* SELECT COUNT(*) FROM workflow_runs WHERE workflow_id = $1
\*   AND status IN ('pending', 'running') AND trigger = 'cron'
ActiveCronRuns == {r \in CronRuns : cron_runs[r] \in {"pending", "running"}}

\* check_scheduled_workflows: SELECT ... WHERE schedule_enabled AND
\* schedule_next_run <= NOW() FOR UPDATE OF w SKIP LOCKED, run on the pool:
\* the statement is its own transaction, the row lock ends with it
CronSelect(s) ==
    /\ cron[s].pc = "idle"
    /\ workflow.schedule_enabled
    /\ workflow.due
    /\ cron' = [cron EXCEPT
          ![s].pc = IF workflow.overlap_mode = "skip" THEN "count" ELSE "insert"]
    /\ UNCHANGED <<workflow, cron_runs, cron_jobs>>
    /\ UNCHANGED <<jobVars, mapVars, suspVars, mainVars, delayVars, resumeVars, backoffVars>>

\* check_scheduled_workflows: the count of pending/running cron runs
CronCount(s) ==
    /\ cron[s].pc = "count"
    /\ cron' = [cron EXCEPT
          ![s].running_count = Cardinality(ActiveCronRuns),
          ![s].pc = IF Cardinality(ActiveCronRuns) > 0 THEN "skip" ELSE "insert"]
    /\ UNCHANGED <<workflow, cron_runs, cron_jobs>>
    /\ UNCHANGED <<jobVars, mapVars, suspVars, mainVars, delayVars, resumeVars, backoffVars>>

\* check_scheduled_workflows: running_count > 0, only schedule_next_run moves
CronSkip(s) ==
    /\ cron[s].pc = "skip"
    /\ workflow' = [workflow EXCEPT !.due = FALSE]
    /\ cron' = [cron EXCEPT ![s] = IdleCron]
    /\ UNCHANGED <<cron_runs, cron_jobs>>
    /\ UNCHANGED <<jobVars, mapVars, suspVars, mainVars, delayVars, resumeVars, backoffVars>>

\* check_scheduled_workflows: INSERT INTO workflow_runs ... 'pending', 'cron'
CronInsert(s) ==
    /\ cron[s].pc = "insert"
    /\ \E r \in CronRuns :
          /\ cron_runs[r] = "none"
          /\ \A q \in CronRuns : q < r => cron_runs[q] # "none"
          /\ cron_runs' = [cron_runs EXCEPT ![r] = "pending"]
          /\ cron' = [cron EXCEPT ![s].pc = "enqueue", ![s].run_id = r]
    /\ UNCHANGED <<workflow, cron_jobs>>
    /\ UNCHANGED <<jobVars, mapVars, suspVars, mainVars, delayVars, resumeVars, backoffVars>>

\* check_scheduled_workflows: RUN_CREATED, one job per starting node
CronEnqueue(s) ==
    /\ cron[s].pc = "enqueue"
    /\ cron_jobs' = [cron_jobs EXCEPT ![cron[s].run_id] = cron_jobs[cron[s].run_id] + 1]
    /\ cron' = [cron EXCEPT ![s].pc = "next_run"]
    /\ UNCHANGED <<workflow, cron_runs>>
    /\ UNCHANGED <<jobVars, mapVars, suspVars, mainVars, delayVars, resumeVars, backoffVars>>

\* check_scheduled_workflows: UPDATE workflows SET schedule_next_run
CronNextRun(s) ==
    /\ cron[s].pc = "next_run"
    /\ workflow' = [workflow EXCEPT !.due = FALSE]
    /\ cron' = [cron EXCEPT ![s] = IdleCron]
    /\ UNCHANGED <<cron_runs, cron_jobs>>
    /\ UNCHANGED <<jobVars, mapVars, suspVars, mainVars, delayVars, resumeVars, backoffVars>>

check_scheduled_workflows(s) ==
    \/ CronSelect(s)
    \/ CronCount(s)
    \/ CronSkip(s)
    \/ CronInsert(s)
    \/ CronEnqueue(s)
    \/ CronNextRun(s)

\* --- environment of the cron schedule ---
\* NOW() reaches schedule_next_run
CronDue ==
    /\ workflow.schedule_enabled
    /\ ~workflow.due
    /\ \E r \in CronRuns : cron_runs[r] = "none"
    /\ workflow' = [workflow EXCEPT !.due = TRUE]
    /\ UNCHANGED <<cron_runs, cron_jobs, cron>>
    /\ UNCHANGED <<jobVars, mapVars, suspVars, mainVars, delayVars, resumeVars, backoffVars>>

\* a worker takes the first job of a pending run
CronRunStarts(r) ==
    /\ cron_runs[r] = "pending"
    /\ cron_jobs[r] > 0
    /\ cron_runs' = [cron_runs EXCEPT ![r] = "running"]
    /\ UNCHANGED <<workflow, cron_jobs, cron>>
    /\ UNCHANGED <<jobVars, mapVars, suspVars, mainVars, delayVars, resumeVars, backoffVars>>

\* the run finishes
CronRunEnds(r) ==
    /\ cron_runs[r] = "running"
    /\ cron_runs' = [cron_runs EXCEPT ![r] = "completed"]
    /\ UNCHANGED <<workflow, cron_jobs, cron>>
    /\ UNCHANGED <<jobVars, mapVars, suspVars, mainVars, delayVars, resumeVars, backoffVars>>

CronInitCommon ==
    /\ workflow \in [schedule_enabled : {TRUE}, due : {FALSE},
                     overlap_mode : {"skip", "allow"}]
    /\ cron_runs = [r \in CronRuns |-> "none"]
    /\ cron_jobs = [r \in CronRuns |-> 0]
    /\ cron = [s \in Schedulers |-> IdleCron]

\* no workflow has a schedule: the cron check finds nothing
CronIdle ==
    /\ workflow = [schedule_enabled |-> FALSE, due |-> FALSE, overlap_mode |-> "skip"]
    /\ cron_runs = [r \in CronRuns |-> "none"]
    /\ cron_jobs = [r \in CronRuns |-> 0]
    /\ cron = [s \in Schedulers |-> IdleCron]

SchedIdle == SuspIdle /\ CronIdle

\* ------------------------------------------------------------------------
\* scheduler.rs: promotion of the delayed jobs
\*   the clock counts half seconds; the members of the sorted set are
\*   distinct jobs, told apart only by their score (the wake-time)
\* ------------------------------------------------------------------------
WakeTimes == 1..MaxWake

\* members with a score below t (ZRANGEBYSCORE returns ascending scores)
RECURSIVE DueBefore(_)
DueBefore(t) == IF t <= 1 THEN 0 ELSE DueBefore(t - 1) + delayed[t - 1]

\* zrangebyscore_limit(DELAYED_JOBS_KEY, "-inf", now, 0, 10): per score, the
\* number of members among the first PromoteLimit with score <= now
ReadyJobs ==
    [t \in WakeTimes |->
        IF t <= now
        THEN Min(delayed[t], Max(PromoteLimit - DueBefore(t), 0))
        ELSE 0]

\* nodes/delay.rs execute, long delay: zadd(resume_job, resume_at) with
\* resume_at = now + delay_ms; a failed connection or zadd is discarded
DelayExecute(t) ==
    /\ t > now
    /\ DueBefore(MaxWake + 1) < MaxDue
    /\ \E ok \in RedisOutcomes :
        IF ok
        THEN delayed' = [delayed EXCEPT ![t] = @ + 1] /\ UNCHANGED redisFaults
        ELSE redisFaults' = redisFaults - 1 /\ UNCHANGED delayed
    /\ UNCHANGED <<now, pushed, xadded, next_tick>>
    /\ UNCHANGED <<jobVars, mapVars, schedVars, mainVars, resumeVars, backoffVars>>

\* the Redis commands of one tick: every command succeeds, the connection or
\* the ZRANGEBYSCORE fails, or the XADD of one ready job fails
TickOutcomes ==
    {"ok"} \cup (IF redisFaults > 0 THEN {"query_failed"} ELSE {})
           \cup (IF redisFaults > 0 /\ \E t \in WakeTimes : ReadyJobs[t] > 0
                 THEN {"xadd_failed"} ELSE {})

\* the members of score t put on the stream by a tick in which the XADD of
\* one job of score lost fails (lost = 0: none fails)
Xadd(t, lost) == IF t = lost THEN ReadyJobs[t] - 1 ELSE ReadyJobs[t]

\* one iteration of the loop of run: process_delayed_jobs, then sleep.
\* A failed connection or query returns; for each ready job zrem, then xadd,
\* both results discarded
process_delayed_jobs ==
    /\ now = next_tick
    /\ \E outcome \in TickOutcomes :
        IF outcome = "query_failed"
        THEN /\ redisFaults' = redisFaults - 1
             /\ UNCHANGED <<delayed, pushed, xadded>>
        ELSE \E lost \in IF outcome = "ok" THEN {0}
                          ELSE {t \in WakeTimes : ReadyJobs[t] > 0} :
             /\ delayed' = [t \in WakeTimes |-> delayed[t] - ReadyJobs[t]]
             /\ xadded' = [t \in WakeTimes |-> xadded[t] + Xadd(t, lost)]
             /\ pushed' = [t \in WakeTimes |->
                              IF Xadd(t, lost) > 0 THEN pushed[t] \cup {now}
                                                  ELSE pushed[t]]
             /\ redisFaults' = IF outcome = "ok" THEN redisFaults
                                                ELSE redisFaults - 1
    /\ next_tick' = now + poll_interval
    /\ UNCHANGED now
    /\ UNCHANGED <<jobVars, mapVars, schedVars, mainVars, resumeVars, backoffVars>>

\* time passes; the scheduler wakes when its sleep ends
ClockAdvance ==
    /\ now < MaxTime
    /\ now < next_tick
    /\ now' = now + 1
    /\ UNCHANGED <<delayed, pushed, xadded, next_tick, redisFaults>>
    /\ UNCHANGED <<jobVars, mapVars, schedVars, mainVars, resumeVars, backoffVars>>

DelayInitCommon ==
    /\ now = 0
    /\ delayed = [t \in WakeTimes |-> 0]
    /\ pushed = [t \in WakeTimes |-> {}]
    /\ xadded = [t \in WakeTimes |-> 0]
    /\ next_tick \in 0..(poll_interval - 1)

DelayIdle ==
    /\ now = 0
    /\ delayed = [t \in WakeTimes |-> 0]
    /\ pushed = [t \in WakeTimes |-> {}]
    /\ xadded = [t \in WakeTimes |-> 0]
    /\ next_tick = 0
    /\ redisFaults = 0

\* ------------------------------------------------------------------------
\* nodes/subflow.rs and main.rs: the resume of a sub-flow node
\* ------------------------------------------------------------------------
\* handle_resume(data, fail_on_error): (status_code, body) for the parent node
handle_resume(success, fail_on_error) ==
    IF success THEN 200
    ELSE IF fail_on_error THEN 500
    ELSE 299

NoResume ==
    [pc |-> "waiting", success |-> FALSE, status |-> 0, acked |-> FALSE,
     notified |-> FALSE]

\* the child run ends (or times out, scheduler.rs 243-256): a SUBFLOWRESUME
\* job with data.success is put on the stream
ChildOutcome(s) ==
    /\ resume[s].pc = "waiting"
    /\ \E success \in BOOLEAN :
        resume' = [resume EXCEPT ![s] = [@ EXCEPT !.pc = "queued", !.success = success]]
    /\ UNCHANGED subflow_ctx
    /\ UNCHANGED <<jobVars, mapVars, schedVars, mainVars, delayVars, backoffVars>>

\* process_job reads the job (the run is suspended, its token not triggered)
\* and execute_node runs NodeType::SubFlowResume: handle_resume(&data, false)
ExecuteSubFlowResume(s) ==
    /\ resume[s].pc = "queued"
    /\ resume' = [resume EXCEPT ![s] =
                    [@ EXCEPT !.pc = "lifecycle",
                              !.status = handle_resume(resume[s].success, FALSE)]]
    /\ UNCHANGED subflow_ctx
    /\ UNCHANGED <<jobVars, mapVars, schedVars, mainVars, delayVars, backoffVars>>

\* the lifecycle branch of process_job: publish the receipt; status 500 returns
\* without ack_message, status 200 notifies the orchestrator, every status but
\* 500 ACKs
ResumeLifecycle(s) ==
    /\ resume[s].pc = "lifecycle"
    /\ resume' = [resume EXCEPT ![s] =
                    [@ EXCEPT !.pc = "done", !.acked = resume[s].status # 500,
                              !.notified = resume[s].status = 200]]
    /\ UNCHANGED subflow_ctx
    /\ UNCHANGED <<jobVars, mapVars, schedVars, mainVars, delayVars, backoffVars>>

ResumeIdle ==
    /\ subflow_ctx = [s \in Suspensions |-> [fail_on_error |-> FALSE]]
    /\ resume = [s \in Suspensions |-> NoResume]

\* ------------------------------------------------------------------------
\* retry.rs: calculate_backoff
\*   a u64 is a sequence of four 16-bit limbs, least significant first, so
\*   that the arithmetic keeps its 64 bits
\* ------------------------------------------------------------------------
LimbBase == 2^16

U64Limbs == 4

\* x * k + a on limbs: the value modulo 2^(16 * Len(x)) and whether a carry
\* left the last limb
MulAdd(x, k, a) ==
    LET n == Len(x)
        c[i \in 0..n] == IF i = 0 THEN a ELSE (x[i] * k + c[i - 1]) \div LimbBase
    IN [value |-> [i \in 1..n |-> (x[i] * k + c[i - 1]) % LimbBase],
        overflow |-> c[n] > 0]

\* 2.pow(exp) on w limbs: bit exp, which is past the last limb when the power
\* overflows (the wrapped value is then 0)
Pow2(exp, w) ==
    [value |-> [i \in 1..w |-> IF i = exp \div 16 + 1 THEN 2^(exp % 16) ELSE 0],
     overflow |-> exp >= 16 * w]

Jitters == 0..MaxJitter

NoBackoff == [kind |-> "none", ms |-> <<>>]

\* calculate_backoff: base_ms = 2u64.pow(attempt) * 1000, plus the jitter. An
\* overflowing u64 operation panics in a build with overflow checks and wraps
\* in a build without
calculate_backoff(n, jitter_ms, overflow_checks) ==
    LET p == Pow2(n, U64Limbs)
        base_ms == MulAdd(p.value, 1000, 0)
        d == MulAdd(base_ms.value, 1, jitter_ms)
    IN IF (p.overflow \/ base_ms.overflow \/ d.overflow) /\ overflow_checks
       THEN [kind |-> "panic", ms |-> <<>>]
       ELSE [kind |-> "ok", ms |-> d.value]

\* a call of calculate_backoff(attempt)
CalculateBackoff ==
    /\ backoff.kind = "none"
    /\ \E jitter_ms \in Jitters, overflow_checks \in BOOLEAN :
        backoff' = calculate_backoff(attempt, jitter_ms, overflow_checks)
    /\ UNCHANGED <<attempt, status_code, retryable>>
    /\ UNCHANGED <<jobVars, mapVars, schedVars, mainVars, delayVars, resumeVars>>

\* a call of is_retryable_error(status_code)
IsRetryableError ==
    /\ retryable = {}
    /\ retryable' = {is_retryable_error(status_code)}
    /\ UNCHANGED <<attempt, backoff, status_code>>
    /\ UNCHANGED <<jobVars, mapVars, schedVars, mainVars, delayVars, resumeVars>>

BackoffIdle ==
    /\ attempt = 0
    /\ backoff = NoBackoff
    /\ status_code = 0
    /\ retryable = {}

\* ------------------------------------------------------------------------
\* main.rs: the dispatch loop and the shutdown
\* ------------------------------------------------------------------------
\* the tasks of tokio::spawn that run process_job
Spawned == 1..MaxInFlight

\* read_next_job returned a job: in_flight.fetch_add(1), then tokio::spawn of
\* the task that runs process_job
ReadNextJob(t) ==
    /\ worker = "consuming"
    /\ backlog > 0
    /\ running_jobs[t] = "none"
    /\ backlog' = backlog - 1
    /\ in_flight' = in_flight + 1
    /\ running_jobs' = [running_jobs EXCEPT ![t] = "process_job"]
    /\ UNCHANGED <<worker, completed>>
    /\ UNCHANGED <<jobVars, mapVars, schedVars, delayVars, resumeVars, backoffVars>>

\* process_job(...).await of a spawned task returns: its side effects and its
\* ACK (or its decision not to ACK) are done
ProcessJobReturns(t) ==
    /\ running_jobs[t] = "process_job"
    /\ completed' = completed + 1
    /\ running_jobs' = [running_jobs EXCEPT ![t] = "fetch_sub"]
    /\ UNCHANGED <<worker, backlog, in_flight>>
    /\ UNCHANGED <<jobVars, mapVars, schedVars, delayVars, resumeVars, backoffVars>>

\* in_flight_clone.fetch_sub(1), JOBS_PROCESSED.fetch_add(1): the task ends
FetchSub(t) ==
    /\ running_jobs[t] = "fetch_sub"
    /\ in_flight' = in_flight - 1
    /\ running_jobs' = [running_jobs EXCEPT ![t] = "none"]
    /\ UNCHANGED <<worker, backlog, completed>>
    /\ UNCHANGED <<jobVars, mapVars, schedVars, delayVars, resumeVars, backoffVars>>

\* the ctrl_c arm of the select: break
CtrlC ==
    /\ worker = "consuming"
    /\ worker' = "draining"
    /\ UNCHANGED <<backlog, in_flight, running_jobs, completed>>
    /\ UNCHANGED <<jobVars, mapVars, schedVars, delayVars, resumeVars, backoffVars>>

\* a shutdown that does not wait
WaitInFlight_NoWait ==
    /\ worker = "draining"
    /\ worker' = "exited"
    /\ UNCHANGED <<backlog, in_flight, running_jobs, completed>>
    /\ UNCHANGED <<jobVars, mapVars, schedVars, delayVars, resumeVars, backoffVars>>

\* while in_flight.load() > 0 { sleep(100ms) }, then main returns
WaitInFlight ==
    /\ worker = "draining"
    /\ in_flight = 0
    /\ worker' = "exited"
    /\ UNCHANGED <<backlog, in_flight, running_jobs, completed>>
    /\ UNCHANGED <<jobVars, mapVars, schedVars, delayVars, resumeVars, backoffVars>>

\* jobs on the stream when the worker starts
MainInit ==
    /\ worker = "consuming"
    /\ backlog = MaxBacklog
    /\ in_flight = 0
    /\ running_jobs = [t \in Spawned |-> "none"]
    /\ completed = 0

\* the dispatch loop is not looked at
MainIdle ==
    /\ worker = "consuming"
    /\ backlog = 0
    /\ in_flight = 0
    /\ running_jobs = [t \in Spawned |-> "none"]
    /\ completed = 0

\* ------------------------------------------------------------------------
\* specifications of the job lifecycle
\* ------------------------------------------------------------------------
JobInitCommon ==
    /\ stream = [a \in Attempts |-> IF a = 0 THEN 1 ELSE 0]
    /\ pending = [a \in Attempts |-> 0]
    /\ retry_timers = [a \in Attempts |-> 0]
    /\ receipts = [c \in StatusCodes |-> 0]
    /\ run_events = <<>>
    /\ run_status = "running"
    /\ task = [t \in Tasks |-> IdleTask]
    /\ tokens = 0
    /\ nextTok = 0
    /\ cancelledToks = {}
    /\ notified = [b \in BOOLEAN |-> 0]
    /\ max_retries \in 0..MaxRetriesBound
    /\ failsInit \in 0..MaxFails
    /\ failsLeft = failsInit
    /\ published = FALSE
    /\ suspend_rows = [a \in Attempts |-> 0]

\* no job of the run is queued: process_job never acts
JobIdle ==
    /\ stream = [a \in Attempts |-> 0]
    /\ pending = [a \in Attempts |-> 0]
    /\ retry_timers = [a \in Attempts |-> 0]
    /\ receipts = [c \in StatusCodes |-> 0]
    /\ run_events = <<>>
    /\ run_status = "running"
    /\ task = [t \in Tasks |-> IdleTask]
    /\ tokens = 0
    /\ nextTok = 0
    /\ cancelledToks = {}
    /\ notified = [b \in BOOLEAN |-> 0]
    /\ max_retries = 0
    /\ failsInit = 0
    /\ failsLeft = 0
    /\ finalStatus = 200
    /\ node = HttpNode
    /\ published = FALSE
    /\ dbFaults = 0
    /\ crashes = 0
    /\ dups = 0
    /\ suspend_rows = [a \in Attempts |-> 0]

\* at-least-once delivery: duplicate enqueues, crashes and redelivery
Init ==
    /\ JobInitCommon
    /\ finalStatus \in {200, 404}
    /\ node = HttpNode
    /\ MapIdle
    /\ SchedIdle
    /\ dbFaults = 0
    /\ crashes = MaxCrash
    /\ dups = MaxDup
    /\ MainIdle
    /\ DelayIdle
    /\ ResumeIdle
    /\ BackoffIdle

ProcessJob(t) ==
    \/ Deliver(t)
    \/ GetToken(t)
    \/ StatusCheck(t)
    \/ IdemCheck(t)
    \/ LogStarted(t)
    \/ ExecSend(t)
    \/ ExecAwait(t)
    \/ ExecResp(t)
    \/ ExecBody(t)
    \/ Act(t)
    \/ Finish(t)

Next ==
    \/ \E t \in Tasks : ProcessJob(t)
    \/ RetryTimerFire
    \/ Redeliver
    \/ DuplicateEnqueue
    \/ Crash

Spec == Init /\ [][Next]_vars

\* database statements fail (pool timeouts); un-ACKed messages are redelivered
InitFault ==
    /\ JobInitCommon
    /\ finalStatus \in {200, 404}
    /\ node = HttpNode
    /\ MapIdle
    /\ SchedIdle
    /\ dbFaults = MaxDbFaults
    /\ crashes = 0
    /\ dups = 0
    /\ MainIdle
    /\ DelayIdle
    /\ ResumeIdle
    /\ BackoffIdle

NextFault ==
    \/ \E t \in Tasks : ProcessJob(t)
    \/ RetryTimerFire
    \/ Redeliver

SpecFault == InitFault /\ [][NextFault]_vars

\* the worker alone: read_next_job reads only ">", the messages never
\* delivered to the group, so what the code itself does with a message it
\* left un-ACKed is nothing; every task and every timer gets to run
NextPending ==
    \/ \E t \in Tasks : ProcessJob(t)
    \/ RetryTimerFire

SpecPending == InitFault /\ [][NextPending]_vars /\ WF_vars(NextPending)

\* every way process_job can end: results 202 (suspended) and 500 (transient
\* database error), a duplicate of the job, a failing database statement, a
\* cancel of the run
InitOutcome ==
    /\ JobInitCommon
    /\ finalStatus \in {200, 202, 404, 500}
    /\ node = HttpNode
    /\ MapIdle
    /\ SchedIdle
    /\ dbFaults = MaxDbFaults
    /\ crashes = 0
    /\ dups = MaxDup
    /\ MainIdle
    /\ DelayIdle
    /\ ResumeIdle
    /\ BackoffIdle

NextOutcome ==
    \/ \E t \in Tasks : ProcessJob(t)
    \/ RetryTimerFire
    \/ DuplicateEnqueue
    \/ PublishCancel

SpecOutcome == InitOutcome /\ [][NextOutcome]_vars

\* jobs of every node type: HTTP, and SUBFLOW and MAP below, at and beyond
\* their depth limit
InitDepth ==
    /\ JobInitCommon
    /\ finalStatus \in {200, 404}
    /\ node \in {HttpNode} \cup [type : {"SUBFLOW", "MAP"}, depth : 0..MaxDepth, depth_limit : 1..MaxDepth, duration_ms : {0}]
    /\ MapIdle
    /\ SchedIdle
    /\ dbFaults = 0
    /\ crashes = 0
    /\ dups = 0
    /\ MainIdle
    /\ DelayIdle
    /\ ResumeIdle
    /\ BackoffIdle

NextDepth ==
    \/ \E t \in Tasks : ProcessJob(t)
    \/ RetryTimerFire

SpecDepth == InitDepth /\ [][NextDepth]_vars

\* jobs of every node type whose worker may die before the ACK, so that the
\* queue delivers the job of the same attempt again
InitRedeliver ==
    /\ JobInitCommon
    /\ finalStatus = 200
    /\ node \in {HttpNode} \cup [type : {"WEBHOOKWAIT", "SUBFLOW", "MAP"}, depth : 0..MaxDepth, depth_limit : 1..MaxDepth, duration_ms : {0}]
    /\ MapIdle
    /\ SchedIdle
    /\ dbFaults = 0
    /\ crashes = MaxCrash
    /\ dups = 0
    /\ MainIdle
    /\ DelayIdle
    /\ ResumeIdle
    /\ BackoffIdle

NextRedeliver ==
    \/ \E t \in Tasks : ProcessJob(t)
    \/ RetryTimerFire
    \/ Redeliver
    \/ Crash

SpecRedeliver == InitRedeliver /\ [][NextRedeliver]_vars

\* DELAY jobs, inline and long, next to the HTTP job; the scheduler promotes
\* the delayed set while the clock advances, and a cancel may be published
InitDelayNode ==
    /\ JobInitCommon
    /\ finalStatus = 200
    /\ node \in {HttpNode} \cup [type : {"DELAY"}, depth : {0}, depth_limit : {0}, duration_ms : Durations]
    /\ MapIdle
    /\ SchedIdle
    /\ dbFaults = 0
    /\ crashes = 0
    /\ dups = 0
    /\ MainIdle
    /\ DelayInitCommon
    /\ redisFaults = 0
    /\ ResumeIdle
    /\ BackoffIdle

NextDelayNode ==
    \/ \E t \in Tasks : ProcessJob(t)
    \/ RetryTimerFire
    \/ PublishCancel
    \/ process_delayed_jobs
    \/ ClockAdvance

SpecDelayNode == InitDelayNode /\ [][NextDelayNode]_vars

\* a cancel is published for the run while its jobs are queued or in flight
InitCancel ==
    /\ JobInitCommon
    /\ finalStatus \in {200, 404}
    /\ node = HttpNode
    /\ MapIdle
    /\ SchedIdle
    /\ dbFaults = MaxDbFaults
    /\ crashes = 0
    /\ dups = MaxDup
    /\ MainIdle
    /\ DelayIdle
    /\ ResumeIdle
    /\ BackoffIdle

NextCancel ==
    \/ \E t \in Tasks : ProcessJob(t)
    \/ RetryTimerFire
    \/ Redeliver
    \/ DuplicateEnqueue
    \/ PublishCancel

SpecCancel == InitCancel /\ [][NextCancel]_vars

\* jobs of a run that is cancelled or marked failed while they are queued
NextSkip ==
    \/ \E t \in Tasks : ProcessJob(t)
    \/ RetryTimerFire
    \/ DuplicateEnqueue
    \/ PublishCancel
    \/ RunFails

SpecSkip == InitCancel /\ [][NextSkip]_vars

\* every message is delivered once, nothing fails but the remote endpoint
InitRetry ==
    /\ JobInitCommon
    /\ finalStatus \in {200, 404}
    /\ node = HttpNode
    /\ MapIdle
    /\ SchedIdle
    /\ dbFaults = 0
    /\ crashes = 0
    /\ dups = 0
    /\ MainIdle
    /\ DelayIdle
    /\ ResumeIdle
    /\ BackoffIdle

NextRetry ==
    \/ \E t \in Tasks : ProcessJob(t)
    \/ RetryTimerFire

SpecRetry == InitRetry /\ [][NextRetry]_vars

\* retries whose enqueue may fail and a worker that may be shut down while
\* retry tasks sleep
InitRetryLoss ==
    /\ JobInitCommon
    /\ finalStatus \in {200, 404}
    /\ node = HttpNode
    /\ MapIdle
    /\ SchedIdle
    /\ dbFaults = 0
    /\ crashes = 0
    /\ dups = 0
    /\ MainIdle
    /\ now = 0
    /\ delayed = [t \in WakeTimes |-> 0]
    /\ pushed = [t \in WakeTimes |-> {}]
    /\ xadded = [t \in WakeTimes |-> 0]
    /\ next_tick = 0
    /\ redisFaults = MaxRedisFaults
    /\ ResumeIdle
    /\ BackoffIdle

NextRetryLoss ==
    \/ \E t \in Tasks : ProcessJob(t)
    \/ RetryTimerFire
    \/ Shutdown

SpecRetryLoss == InitRetryLoss /\ [][NextRetryLoss]_vars

\* ------------------------------------------------------------------------
\* specification of the map engine
\* ------------------------------------------------------------------------
\* one map node in a run that is not cancelled: its init job, the
\* MAPCHILDCOMPLETE and MAPSTEP jobs of its batch handled by concurrent tasks,
\* failing spawns, the scheduler's stale-batch recovery
InitMap ==
    /\ MapInitCommon
    /\ spawnFaults = MaxSpawnFaults
    /\ staleLeft = MaxStale
    /\ JobIdle
    /\ SchedIdle
    /\ MainIdle
    /\ DelayIdle
    /\ ResumeIdle
    /\ BackoffIdle

MapJob(h) ==
    \/ MapDeliver(h)
    \/ ChildRunEnds(h)
    \/ ChildCompleteSteps(h)
    \/ complete_batch(h)

NextMap ==
    \/ handle_map_init
    \/ \E h \in Handlers : MapJob(h)
    \/ \E h \in Handlers : handle_map_step(h)
    \/ check_stale_batches

SpecMap == InitMap /\ [][NextMap]_vars

\* the same batch under fair scheduling: every job that is queued is read,
\* every handler that runs goes on, the scheduler's checks keep coming; a
\* spawn may fail and a worker may die before it finalizes
InitMapLive ==
    /\ MapInitCommon
    /\ map_data.items <= MaxLiveItems
    /\ spawnFaults = MaxSpawnFaults
    /\ staleLeft = NULL
    /\ JobIdle
    /\ SchedIdle
    /\ MainIdle
    /\ DelayIdle
    /\ ResumeIdle
    /\ BackoffIdle

NextMapLive ==
    \/ NextMap
    \/ \E h \in Handlers : WorkerCrash(h)

SpecMapLive ==
    /\ InitMapLive
    /\ [][NextMapLive]_vars
    /\ WF_vars(handle_map_init)
    /\ \A h \in Handlers : WF_vars(MapJob(h)) /\ WF_vars(handle_map_step(h))
    /\ WF_vars(check_stale_batches)

\* the same batch with a timeout: the scheduler's check_batch_timeouts
InitMapTimeout ==
    /\ MapInitCommon
    /\ spawnFaults = 0
    /\ staleLeft = 0
    /\ JobIdle
    /\ SchedIdle
    /\ MainIdle
    /\ DelayIdle
    /\ ResumeIdle
    /\ BackoffIdle

NextMapTimeout ==
    \/ handle_map_init
    \/ \E h \in Handlers : MapJob(h)
    \/ BatchTimeoutSelect
    \/ BatchTimeoutWrite

SpecMapTimeout == InitMapTimeout /\ [][NextMapTimeout]_vars

\* the same batch in a run that is cancelled while the batch runs
InitMapCancel ==
    /\ MapInitCommon
    /\ spawnFaults = 0
    /\ staleLeft = MaxStale
    /\ JobIdle
    /\ SchedIdle
    /\ MainIdle
    /\ DelayIdle
    /\ ResumeIdle
    /\ BackoffIdle

NextMapCancel ==
    \/ handle_map_init
    \/ \E h \in Handlers : MapJob(h)
    \/ \E h \in Handlers : ChildCancelBatch(h)
    \/ \E h \in Handlers : handle_map_step(h)
    \/ check_stale_batches
    \/ CancelParentRun

SpecMapCancel == InitMapCancel /\ [][NextMapCancel]_vars


\* ------------------------------------------------------------------------
\* specifications of the scheduler
\* ------------------------------------------------------------------------
\* webhook and sub-flow suspensions whose deadlines pass while the schedulers
\* of several workers run their checks
InitSuspend ==
    /\ SuspInitCommon
    /\ CronIdle
    /\ JobIdle
    /\ MapIdle
    /\ MainIdle
    /\ DelayIdle
    /\ ResumeIdle
    /\ BackoffIdle

NextSuspend ==
    \/ \E s \in Schedulers : check_expired_suspensions(s)
    \/ \E s \in Schedulers : check_subflow_timeouts(s)
    \/ \E i \in Suspensions : DeadlinePasses(i)
    \/ \E i \in Suspensions : SubflowChildEnds(i)

SpecSuspend == InitSuspend /\ [][NextSuspend]_vars

\* one workflow with a cron schedule, evaluated by the schedulers of several
\* workers
InitCron ==
    /\ CronInitCommon
    /\ SuspIdle
    /\ JobIdle
    /\ MapIdle
    /\ MainIdle
    /\ DelayIdle
    /\ ResumeIdle
    /\ BackoffIdle

NextCron ==
    \/ \E s \in Schedulers : check_scheduled_workflows(s)
    \/ CronDue
    \/ \E r \in CronRuns : CronRunStarts(r)
    \/ \E r \in CronRuns : CronRunEnds(r)

SpecCron == InitCron /\ [][NextCron]_vars

\* ------------------------------------------------------------------------
\* specification of the delayed jobs (no Redis command fails)
\* ------------------------------------------------------------------------
InitDelay ==
    /\ DelayInitCommon
    /\ redisFaults = 0
    /\ JobIdle
    /\ MapIdle
    /\ SchedIdle
    /\ MainIdle
    /\ ResumeIdle
    /\ BackoffIdle

NextDelay ==
    \/ \E t \in WakeTimes : DelayExecute(t)
    \/ process_delayed_jobs
    \/ ClockAdvance

SpecDelay == InitDelay /\ [][NextDelay]_vars

\* the delayed jobs when a Redis command of the scheduler or of delay.rs fails
InitDelayLoss ==
    /\ DelayInitCommon
    /\ redisFaults = MaxRedisFaults
    /\ JobIdle
    /\ MapIdle
    /\ SchedIdle
    /\ MainIdle
    /\ ResumeIdle
    /\ BackoffIdle

SpecDelayLoss == InitDelayLoss /\ [][NextDelay]_vars

\* ------------------------------------------------------------------------
\* specification of the sub-flow resume: SUBFLOW nodes configured with either
\* value of fail_on_error, child runs that succeed or fail
\* ------------------------------------------------------------------------
InitResume ==
    /\ subflow_ctx \in [Suspensions -> [fail_on_error : BOOLEAN]]
    /\ resume = [s \in Suspensions |-> NoResume]
    /\ JobIdle
    /\ MapIdle
    /\ SchedIdle
    /\ MainIdle
    /\ DelayIdle
    /\ BackoffIdle

NextResume ==
    \/ \E s \in Suspensions : ChildOutcome(s)
    \/ \E s \in Suspensions : ExecuteSubFlowResume(s)
    \/ \E s \in Suspensions : ResumeLifecycle(s)

SpecResume == InitResume /\ [][NextResume]_vars

\* ------------------------------------------------------------------------
\* specification of calculate_backoff: every attempt number up to MaxAttempt
\* ------------------------------------------------------------------------
InitBackoff ==
    /\ attempt \in 0..MaxAttempt
    /\ backoff = NoBackoff
    /\ status_code = 0
    /\ retryable = {}
    /\ JobIdle
    /\ MapIdle
    /\ SchedIdle
    /\ MainIdle
    /\ DelayIdle
    /\ ResumeIdle

NextBackoff == CalculateBackoff

SpecBackoff == InitBackoff /\ [][NextBackoff]_vars

\* ------------------------------------------------------------------------
\* specification of is_retryable_error: every status code up to MaxStatus
\* ------------------------------------------------------------------------
InitRetryable ==
    /\ status_code \in 0..MaxStatus
    /\ retryable = {}
    /\ attempt = 0
    /\ backoff = NoBackoff
    /\ JobIdle
    /\ MapIdle
    /\ SchedIdle
    /\ MainIdle
    /\ DelayIdle
    /\ ResumeIdle

NextRetryable == IsRetryableError

SpecRetryable == InitRetryable /\ [][NextRetryable]_vars

\* ------------------------------------------------------------------------
\* specification of the shutdown
\* ------------------------------------------------------------------------
InitShutdown ==
    /\ MainInit
    /\ JobIdle
    /\ MapIdle
    /\ SchedIdle
    /\ DelayIdle
    /\ ResumeIdle
    /\ BackoffIdle

NextShutdown ==
    \/ \E t \in Spawned : ReadNextJob(t)
    \/ \E t \in Spawned : ProcessJobReturns(t)
    \/ \E t \in Spawned : FetchSub(t)
    \/ CtrlC
    \/ WaitInFlight

SpecShutdown == InitShutdown /\ [][NextShutdown]_vars

\* ------------------------------------------------------------------------
\* properties of the job lifecycle
\* ------------------------------------------------------------------------
EventsOf(type) == {i \in 1..Len(run_events) : run_events[i].type = type}

TerminalEventsOf(a) ==
    {i \in 1..Len(run_events) :
        run_events[i].rc = a /\ run_events[i].type \in TerminalTypes}

\* nothing of the job is queued, sleeping, un-ACKed or being processed
Quiescent ==
    /\ \A t \in Tasks : task[t].pc = "idle"
    /\ \A a \in Attempts : stream[a] = 0 /\ pending[a] = 0 /\ retry_timers[a] = 0

\* C1: whatever deliveries of one (run, node, attempt) occur (redelivery after
\* a crash before ACK, a duplicate enqueue, two concurrent deliveries), the
\* event log holds one terminal event for the attempt, never two.
C1_OneTerminalEventPerAttempt ==
    \A a \in Attempts : Cardinality(TerminalEventsOf(a)) <= 1

\* C8: a job with max_retries >= k whose first k executions fail retryably and
\* whose next one succeeds completes once: the NODE_COMPLETED event is unique,
\* it carries retry_count = k, exactly k NODE_RETRY_SCHEDULED events precede
\* it, and the job does not come to rest without it.
C8_RetryThenComplete ==
    (failsInit <= max_retries /\ finalStatus = 200) =>
        /\ Cardinality(EventsOf("NODE_COMPLETED")) <= 1
        /\ Cardinality(EventsOf("NODE_RETRY_SCHEDULED")) <= failsInit
        /\ \A i \in EventsOf("NODE_COMPLETED") :
              /\ run_events[i].rc = failsInit
              /\ Cardinality(EventsOf("NODE_RETRY_SCHEDULED")) = failsInit
        /\ Quiescent => Cardinality(EventsOf("NODE_COMPLETED")) = 1

C8_Witness ==
    /\ Quiescent
    /\ failsInit = MaxFails
    /\ max_retries >= failsInit
    /\ Cardinality(EventsOf("NODE_RETRY_SCHEDULED")) = MaxFails
    /\ \E i \in EventsOf("NODE_COMPLETED") : run_events[i].rc = MaxFails

\* C9: once a cancel was published for the run, a job that starts afterwards
\* never reaches the executor, and an execution that was in flight at the
\* publish returns 499 with was_cancelled = true.
C9_CancelStopsTheRun ==
    \A t \in Tasks :
        /\ task[t].afterPub => ~task[t].executed
        /\ (task[t].atPub # "none" /\ task[t].pc = "act") =>
              (task[t].st = 499 /\ task[t].wc)

\* C10: when the run-status query or the idempotency query of process_job
\* fails, the invocation ends there: the message is left un-ACKed, no event
\* is logged, no receipt is published, the executor is not entered.
C10_QueryFailureLeavesNoTrace ==
    [][\A t \in Tasks :
          (/\ task[t].pc \in {"status", "idem"}
           /\ task'[t] # task[t]
           /\ dbFaults' < dbFaults)
          => /\ task'[t].pc = "idle"
             /\ pending'[task[t].rc] = pending[task[t].rc] + 1
             /\ run_events' = run_events
             /\ receipts' = receipts
             /\ notified' = notified
             /\ stream' = stream
             /\ retry_timers' = retry_timers]_vars

C10_Witness ==
    /\ dbFaults < MaxDbFaults
    /\ \E a \in Attempts : pending[a] > 0
    /\ \A t \in Tasks : task[t].pc = "idle"

\* ------------------------------------------------------------------------
\* properties of the map engine
\* ------------------------------------------------------------------------
ResultRows == {i \in Items : batch_results[i] # "none"}

BatchWhole ==
    /\ batch.completed_count + batch.failed_count = batch.total_items
    /\ Cardinality(ResultRows) = batch.total_items
    /\ \A i \in Items : i < batch.total_items => i \in ResultRows

\* C2 (as stated): a batch of N items that reached a terminal status, by
\* normal completion, fail-fast, the timeout marker or stale recovery, has
\* completed_count + failed_count = N, N result rows, one per index, and an
\* output array of length N.
C2_TerminalBatchIsWhole ==
    /\ batch.status \in BatchTerminal => BatchWhole
    /\ \A o \in map_out : o.results_len = batch.total_items

\* C2 (amended): a batch of N items that complete_batch marked completed has
\* completed_count + failed_count = N and N result rows, one per index; the
\* output array has length N however the batch was finalized.
C2_CompletedBatchIsWhole ==
    /\ batch.status = "completed" => BatchWhole
    /\ \A o \in map_out : o.results_len = batch.total_items

C2_Witness ==
    /\ batch.status = "completed"
    /\ batch.total_items = MaxItems
    /\ \E o \in map_out : o.status_code = 200 /\ o.rows = MaxItems

\* C3: while the batch is running its stored active_count never exceeds its
\* concurrency_limit, whatever the interleaving of handle_map_init,
\* handle_map_step and handle_child_complete.
C3_ActiveWithinLimit ==
    batch.status = "running" => batch.active_count <= batch.concurrency_limit

C3_Witness ==
    /\ batch.status = "running"
    /\ batch.active_count = batch.concurrency_limit
    /\ batch.current_index > batch.concurrency_limit
    /\ batch.current_index < batch.total_items
    /\ batch.completed_count + batch.failed_count > 0

\* C4: no write of the batch row lowers current_index.
C4_CursorNeverDecreases ==
    [][batch'.current_index >= batch.current_index]_vars

\* C5: a MAPCHILDCOMPLETE job for an (batch, item_index) whose result row
\* exists changes none of completed_count, failed_count and active_count.
C5_DuplicateLeavesCounters ==
    [][\A h \in Handlers :
          (/\ hand'[h] # hand[h]
           /\ hand[h].msg.kind = "child"
           /\ \/ hand[h].pc = "insert" /\ batch_results[hand[h].msg.idx] # "none"
              \/ hand[h].pc # "idle" /\ hand[h].dup)
          => /\ batch'.completed_count = batch.completed_count
             /\ batch'.failed_count = batch.failed_count
             /\ batch'.active_count = batch.active_count
             /\ batch_results' = batch_results]_vars

C5_Witness ==
    \E h \in Handlers :
        /\ hand[h].pc = "dup_read"
        /\ hand[h].dup
        /\ batch.status = "running"
        /\ batch.completed_count + batch.failed_count > 0

\* ------------------------------------------------------------------------
\* properties of the scheduler
\* ------------------------------------------------------------------------
\* C6: a suspension is resolved once: no scheduler pass, of any worker,
\* writes the row of a suspension that is resolved, logs a timeout
\* NODE_FAILED for it or enqueues a resume job for it.
C6_ResolvedOnce ==
    [][\A i \in Suspensions :
          suspensions[i].resumed_at =>
              /\ suspensions'[i] = suspensions[i]
              /\ timeout_events'[i] = timeout_events[i]
              /\ resume_jobs'[i] = resume_jobs[i]]_vars

\* C7: a workflow with overlap mode skip has at most one cron-triggered run
\* in status pending or running.
C7_OneActiveCronRun ==
    workflow.overlap_mode = "skip" => Cardinality(ActiveCronRuns) <= 1

\* C11: a message the worker left un-ACKed (here: the run-status or the
\* idempotency query failed) is delivered to a worker again once the fault
\* has cleared; it does not stay on the pending list forever.
C11_UnackedIsDeliveredAgain ==
    \A a \in Attempts : (pending[a] > 0) ~> (pending[a] = 0)

\* the step appends one event of one of the types for the attempt of task t
Logged(t, types) ==
    /\ Len(run_events') = Len(run_events) + 1
    /\ run_events'[Len(run_events')].type \in types
    /\ run_events'[Len(run_events')].rc = task[t].rc

\* the invocation of task t ends, the message is not ACKed, nothing is recorded
NotAcked(t) ==
    /\ task'[t].pc = "idle"
    /\ pending'[task[t].rc] = pending[task[t].rc] + 1
    /\ run_events' = run_events
    /\ retry_timers' = retry_timers

\* the invocation of task t ends with an ACK and nothing recorded because the
\* token is cancelled, the run is cancelled or failed, or the attempt already
\* has its terminal event
Skipped(t) ==
    /\ task'[t].pc = "idle"
    /\ pending' = pending
    /\ run_events' = run_events
    /\ retry_timers' = retry_timers
    /\ \/ task[t].pc = "token" /\ is_cancelled(tokens')
       \/ task[t].pc = "status" /\ run_status \in {"cancelled", "failed"}
       \/ task[t].pc = "idem" /\ has_node_completed(run_events, task[t].rc)

\* the insert of the event failed and process_job went on
WriteFailed == dbFaults' < dbFaults /\ run_events' = run_events

\* task t takes the retry branch: a copy with the next retry_count is
\* scheduled, no terminal event and no suspension is logged
Reenqueued(t) ==
    /\ task'[t].pc = "fin_retry"
    /\ retry_timers' = [retry_timers EXCEPT ![task[t].rc + 1] = @ + 1]
    /\ ~Logged(t, TerminalTypes \cup {"NODE_SUSPENDED"})
    /\ pending' = pending

\* every fin_* position leads to ack_message and the end of the invocation
AckedAtEnd(t) ==
    task[t].pc \in {"fin_cancel", "fin_susp", "fin_retry", "fin_final"} =>
        (task'[t].pc = "idle" /\ pending' = pending)

C13_ActiveCountNotNegative == batch.active_count >= 0

\* C14: a run whose status is completed, failed or cancelled keeps that
\* status: no step of the worker or the scheduler writes another one.
C14_TerminalRunStatusStays ==
    [][\A i \in Suspensions :
          /\ child_run[i] \in {"completed", "failed", "cancelled"}
                => child_run'[i] = child_run[i]
          /\ waiting_run[i] \in {"completed", "failed", "cancelled"}
                => waiting_run'[i] = waiting_run[i]]_vars

C16_PromotedWithinTwoSeconds ==
    \A t \in WakeTimes :
        /\ \A at \in pushed[t] : t <= at /\ at < t + 2 * poll_interval
        /\ delayed[t] > 0 => now < t + 2 * poll_interval

\* ------------------------------------------------------------------------
\* properties of the depth limit
\* ------------------------------------------------------------------------
\* C17: a sub-flow or map node beyond its depth limit is not retried: no
\* NODE_RETRY_SCHEDULED is logged and no copy of the job is re-enqueued,
\* whatever retry_count and max_retries
C17_DepthLimitNotRetried ==
    (node.type # "HTTP" /\ DepthLimitExceeded(node)) =>
        /\ EventsOf("NODE_RETRY_SCHEDULED") = {}
        /\ \A a \in Attempts : retry_timers[a] = 0
        /\ \A a \in Attempts \ {0} : stream[a] = 0

\* ------------------------------------------------------------------------
\* properties of the sub-flow resume
\* ------------------------------------------------------------------------
\* C18: a processed subflow-resume job gives the parent node 200 when the
\* child succeeded, 500 when it failed and the node has fail_on_error = true,
\* 299 when it failed and the node has fail_on_error = false
C18_ResumeStatus ==
    \A s \in Suspensions :
        resume[s].pc \in {"lifecycle", "done"} =>
            resume[s].status =
                IF resume[s].success THEN 200
                ELSE IF subflow_ctx[s].fail_on_error THEN 500
                ELSE 299

\* ------------------------------------------------------------------------
\* properties of the event order
\* ------------------------------------------------------------------------
\* C19: every terminal event (NODE_COMPLETED, NODE_FAILED, NODE_CANCELLED) of
\* the event log is preceded by a NODE_STARTED event of the same run and node
C19_StartedBeforeTerminal ==
    \A i \in 1..Len(run_events) :
        run_events[i].type \in TerminalTypes =>
            \E j \in 1..(i - 1) : run_events[j].type = "NODE_STARTED"

\* ------------------------------------------------------------------------
\* properties of calculate_backoff
\* ------------------------------------------------------------------------
\* a <= b for numbers on the same number of limbs
LimbsLeq(a, b) ==
    \/ a = b
    \/ \E i \in 1..Len(a) :
        /\ a[i] < b[i]
        /\ \A j \in (i + 1)..Len(a) : a[j] = b[j]

\* 2^n * 1000 + j, exact, on eight limbs
ExactBackoff(n, j) ==
    MulAdd(MulAdd(Pow2(n, 2 * U64Limbs).value, 1000, 0).value, 1, j).value

\* a u64 on eight limbs
Widen(x) == x \o [i \in 1..U64Limbs |-> 0]

InBackoffRange(n, d) ==
    /\ LimbsLeq(ExactBackoff(n, 0), Widen(d))
    /\ LimbsLeq(Widen(d), ExactBackoff(n, MaxJitter))

\* C20: for every attempt number n, calculate_backoff(n) returns a duration d
\* in milliseconds with 2^n * 1000 <= d <= 2^n * 1000 + 500
C20_BackoffInRange ==
    backoff.kind # "none" =>
        backoff.kind = "ok" /\ InBackoffRange(attempt, backoff.ms)

\* ------------------------------------------------------------------------
\* properties of is_retryable_error
\* ------------------------------------------------------------------------
\* C21: is_retryable_error(s) is true exactly when s is one of 408, 429, 500,
\* 502, 503, 504, and false for every other status code
C21_RetryableExactly ==
    retryable # {} =>
        retryable = {\/ status_code = 408 \/ status_code = 429
                     \/ status_code = 500 \/ status_code = 502
                     \/ status_code = 503 \/ status_code = 504}

C21_Witness ==
    \/ status_code = 429 /\ retryable = {TRUE}
    \/ status_code = 501 /\ retryable = {FALSE}

\* ------------------------------------------------------------------------
\* properties of the batch's terminal event
\* ------------------------------------------------------------------------
\* C22: for each batch exactly one terminal event (NODE_COMPLETED or
\* NODE_FAILED) is logged on the parent map node, whichever path finalizes it
C22_OneTerminalEventPerBatch ==
    LET terminal == batch_events["NODE_COMPLETED"] + batch_events["NODE_FAILED"]
    IN /\ terminal <= 1
       /\ (/\ batch.status \in {"completed", "failed", "timed_out"}
           /\ \A h \in Handlers : hand[h].pc = "idle"
           /\ sched = "idle"
           /\ \A m \in MapMsgs : mapq[m] = 0) => terminal = 1

\* C23: each item index of a batch is spawned as a child run at most once, in
\* every interleaving of map-init, map-step and concurrent map-child-complete
C23_ItemSpawnedAtMostOnce ==
    \A i \in Items : spawned[i] <= 1

\* the child runs of the batch that are running, and those that have ended
\* and whose result is not yet recorded
RECURSIVE RunningChildren(_)
RunningChildren(n) == IF n = 0 THEN 0 ELSE children[n - 1] + RunningChildren(n - 1)

Unrecorded ==
    {h \in Handlers :
        /\ hand[h].pc \in {"cancel_check", "insert"}
        /\ hand[h].msg.kind = "child"
        /\ batch_results[hand[h].msg.idx] = "none"}

\* C24: at every instant the child runs of a batch that were spawned and whose
\* result is not yet recorded are at most concurrency_limit
C24_InFlightWithinLimit ==
    batch.status # "none" =>
        RunningChildren(MaxItems) + Cardinality(Unrecorded) <= batch.concurrency_limit


\* C25: a lifecycle job of the batch is left un-ACKed only when its handler
\* answered 500 with a transient-looking error; a job whose handler answers 500
\* because the batch was finalized as failed is ACKed.
C25_UnackedOnlyTransient == \A u \in map_unacked : u.transient


\* C26: every terminal event recorded for the map node (NODE_COMPLETED or
\* NODE_FAILED, logged by the lifecycle job that finalizes the batch) comes
\* with one notification of the orchestrator whose success flag matches the
\* event, and there is no notification without such an event.
C26_NotifiedMatchesOutcome ==
    /\ map_notified[TRUE] = batch_events["NODE_COMPLETED"]
    /\ map_notified[FALSE] = batch_events["NODE_FAILED"]


\* C27: once the status of a batch is terminal (completed, failed, timed_out,
\* cancelled) no step changes it: a timed-out batch stays timed_out when its
\* finalize marker is processed, a cancelled batch stays cancelled when a later
\* child completion arrives.
C27_TerminalStatusFinal ==
    [][batch.status \in BatchTerminal => batch'.status = batch.status]_vars


\* C28: under fair scheduling every batch that is running eventually has a
\* terminal status, also when a spawn fails after its slots were claimed and
\* when the worker dies between the last counter update and the finalize.
C28_RunningBatchTerminates ==
    (batch.status = "running") ~> (batch.status \in BatchTerminal)


\* C29: a map-child-complete job that reaches its spawning decision (after the
\* counter UPDATE) while the stored status of the run is cancelled does not go
\* on to spawn children, whatever its item_index.
C29_CancelledRunSpawnsNothing ==
    [][\A h \in Handlers :
         (hand[h].pc = "update" /\ is_run_cancelled) => hand'[h].pc # "spawn"]_vars


\* C30: once an execution job of a MAP, WEBHOOKWAIT or SUBFLOW node has
\* suspended (NODE_SUSPENDED is logged for its attempt), a later delivery of
\* the job of the same run, node and attempt writes no further batch row,
\* child cohort, child run or suspension row.
C30_SuspendedNotRepeated ==
    [][\A a \in Attempts :
         (\E i \in 1..Len(run_events) :
             run_events[i] = Event("NODE_SUSPENDED", a))
         => suspend_rows'[a] = suspend_rows[a]]_vars


\* C31: for a DELAY job with duration_ms > 60000, NODE_COMPLETED is logged for
\* the node or the orchestrator is told of its success only after the
\* delay-resume job was promoted from the delayed set (and then processed).
C31_LongDelayCompletesAfterResume ==
    (/\ LongDelay(node)
     /\ \/ \E i \in 1..Len(run_events) : run_events[i].type = "NODE_COMPLETED"
        \/ notified[TRUE] > 0)
    => \E w \in WakeTimes : pushed[w] # {}


\* C32: every copy of the job that the retry path enqueues has retry_count <=
\* max_retries; the node is executed at most max_retries + 1 times; the
\* attempt numbered max_retries that fails with a retryable status gets
\* NODE_FAILED and no further copy is enqueued.
C32_RetriesBounded ==
    /\ \A a \in Attempts : (stream[a] + retry_timers[a] > 0) => a <= max_retries
    /\ \A t \in Tasks : task[t].pc # "idle" => task[t].rc <= max_retries
    /\ Cardinality(EventsOf("NODE_STARTED")) <= max_retries + 1
    /\ Cardinality(EventsOf("NODE_RETRY_SCHEDULED")) <= max_retries
    /\ (Quiescent /\ failsInit > max_retries) =>
          /\ Cardinality(EventsOf("NODE_RETRY_SCHEDULED")) = max_retries
          /\ \E i \in EventsOf("NODE_FAILED") : run_events[i].rc = max_retries

C32_Witness ==
    /\ Quiescent
    /\ max_retries = 1
    /\ failsInit > max_retries
    /\ Cardinality(EventsOf("NODE_STARTED")) = 2
    /\ Cardinality(EventsOf("NODE_RETRY_SCHEDULED")) = 1
    /\ \E i \in EventsOf("NODE_FAILED") : run_events[i].rc = 1


\* C33: a retry that was scheduled and whose original message was ACKed is
\* never lost: the detached task that holds the copy of attempt a ends only by
\* putting that copy on the job stream, also when the worker shuts down during
\* the backoff sleep or the enqueue fails.
C33_AckedRetryNotLost ==
    [][\A a \in Attempts :
         (/\ retry_timers'[a] < retry_timers[a]
          /\ \A t \in Tasks : ~(task[t].pc = "fin_retry" /\ NextAttempt(task[t].rc) = a))
         => stream'[a] = stream[a] + (retry_timers[a] - retry_timers'[a])]_vars


\* C34: a job whose token is already triggered when process_job obtains it, or
\* whose status query finds the run cancelled or failed, ends there: it is
\* ACKed (nothing is left pending), no NODE_STARTED or other event is logged,
\* no receipt is published and the executor is not entered.
C34_InactiveRunSkipped ==
    [][\A t \in Tasks :
          (/\ task'[t] # task[t]
           /\ \/ task[t].pc = "token" /\ tokens # 0 /\ is_cancelled(tokens)
              \/ task[t].pc = "status" /\ run_status \in {"cancelled", "failed"}
                                       /\ dbFaults' = dbFaults)
          => /\ task'[t] = IdleTask
             /\ pending' = pending
             /\ run_events' = run_events
             /\ receipts' = receipts
             /\ notified' = notified]_vars

\* the only job of a failed run was delivered and skipped without a trace
C34_Witness ==
    /\ Quiescent
    /\ run_status = "failed"
    /\ dups = MaxDup
    /\ run_events = <<>>
    /\ \A c \in StatusCodes : receipts[c] = 0


\* C35: the token of the run leaves the registry only when the stored status
\* of the run is terminal and no other job of the run is queued or in flight,
\* and once the last job of the run has completed (cancelled or not) the
\* registry holds no token for the run.
C35_TokenRemovedWithLastJob ==
    [][/\ (tokens # 0 /\ tokens' = 0) =>
            /\ run_status \in {"completed", "failed", "cancelled"}
            /\ \A a \in Attempts :
                  stream'[a] = 0 /\ pending'[a] = 0 /\ retry_timers'[a] = 0
            /\ \A t \in Tasks : task'[t].pc = "idle"
       /\ Quiescent' => tokens' = 0]_vars


\* C36: cancellation is sticky within a worker: once a token of the run has been
\* triggered, every later get_or_create for the run returns a triggered token,
\* and all jobs of the run that are in flight at the same time hold the same
\* token, whatever the interleaving of get_or_create, cancel and remove.
C36_CancellationSticky ==
    [][/\ (cancelledToks # {} /\ \E t \in Tasks :
                task[t].pc = "token" /\ task'[t].pc # "token") =>
            is_cancelled(tokens')
       /\ \A t, u \in Tasks :
            (task'[t].tok # 0 /\ task'[u].tok # 0) => task'[t].tok = task'[u].tok]_vars


\* C37: no delayed job is lost by promotion: every member that a tick takes out
\* of the delayed set is put on the active stream by that tick, so that no
\* member is ever in neither of the two, even when a push fails or the
\* scheduler stops between the two commands.
C37_PromotionLosesNoJob ==
    [][\A t \in WakeTimes :
          delayed'[t] < delayed[t] =>
              xadded'[t] - xadded[t] >= delayed[t] - delayed'[t]]_vars


\* C38: an inline delay (duration_ms <= 60000) races its sleep against the
\* token of the run: when the token is triggered while the delay sleeps, the
\* executor returns with was_cancelled = true and not with status 200.
C38_InlineDelayCancelled ==
    [][\A t \in Tasks :
          (/\ node.type = "DELAY" /\ ~LongDelay(node)
           /\ task[t].pc = "await" /\ task[t].atPub = "await"
           /\ is_cancelled(task[t].tok)
           /\ task'[t].pc # "await") =>
              task'[t].wc /\ task'[t].st # 200]_vars


\* C39: every processed resume job of a suspended node has notified the
\* orchestrator for that node: a sub-flow resume that reports a failed child
\* (status 299) is not ACKed without a notification.
C39_ResumeNotifies ==
    \A s \in Suspensions :
        (resume[s].pc = "done" /\ resume[s].acked) => resume[s].notified


\* every item of the batch has a failed row
AllItemsFailed ==
    \A i \in Items : i < batch.total_items => batch_results[i] = "failed"

\* the answer o of a finalization over the present rows: 500 and "error" when
\* error holds, 200 and "success" otherwise; results positional with null for
\* a failed or missing item, one entry of errors per failed row
FinalizedAs(o, error) ==
    /\ o.status_code = IF error THEN 500 ELSE 200
    /\ o.route_to = IF error THEN "error" ELSE "success"
    /\ Len(o.results) = batch.total_items
    /\ \A i \in Items : i < batch.total_items =>
          o.results[i + 1] = IF batch_results[i] = "completed"
                             THEN ItemOutput(i) ELSE NULL
    /\ Len(o.errors) = Cardinality({i \in Items : batch_results[i] = "failed"})
    /\ \A i \in Items : batch_results[i] = "failed" =>
          \E k \in 1..Len(o.errors) : o.errors[k].index = i

\* C40 (as stated): finalizing a batch answers status 500 with route_to
\* "error" exactly when the batch failed fast (fail_fast and a failed item) or
\* every item failed, and status 200 with route_to "success" otherwise; the
\* results array has length total_items with the output of item i at position
\* i and null at the position of every failed or missing item; errors holds
\* one {index, error} entry per failed result.
C40_FinalizeFailFastOrAllFailed ==
    [][\A h \in Handlers :
          (hand[h].pc = "cb_results" /\ hand'[h] # hand[h]) =>
              \A o \in map_out' \ map_out :
                  FinalizedAs(o, \/ /\ batch.fail_fast
                                    /\ \E i \in Items : batch_results[i] = "failed"
                                 \/ AllItemsFailed)]_vars

\* C40 (amended): finalizing a batch answers status 500 with route_to "error"
\* exactly when it was finalized with failed_early = true (fail-fast, or the
\* finalize marker of the scheduler) or every item failed, and status 200 with
\* route_to "success" otherwise; the results array has length total_items
\* with the output of item i at position i and null at the position of every
\* failed or missing item; errors holds one {index, error} entry per failed
\* result.
C40_FinalizeOutput ==
    [][\A h \in Handlers :
          (hand[h].pc = "cb_results" /\ hand'[h] # hand[h]) =>
              \A o \in map_out' \ map_out :
                  FinalizedAs(o, hand[h].failed_early \/ AllItemsFailed)]_vars

\* a batch of MaxItems items without fail_fast finalized by the marker of the
\* scheduler: no item failed, an output and a null are in its results, and the
\* answer is 500 with route_to "error"
C40_Witness ==
    /\ ~batch.fail_fast
    /\ \E o \in map_out :
          /\ o.status_code = 500 /\ o.route_to = "error"
          /\ Len(o.results) = MaxItems /\ Len(o.errors) = 0
          /\ \E k \in 1..MaxItems : o.results[k] # NULL
          /\ \E k \in 1..MaxItems : o.results[k] = NULL

====
